---- MODULE Spec2Model ----
(***************************************************************************)
(* A model of the AST-Read tool (ast-read-mcp/build/tools/read.js):        *)
(*   - deduplicateFunctions, the filter that collapses near-duplicate      *)
(*     function records of an outline;                                     *)
(*   - readTarget, the target resolver with its extractCode helper;        *)
(*   - execute with readFull, readLines and readOutline, and the error     *)
(*     records of the read tool and of the search tool (grep.ts).          *)
(* Strings are sequences of tokens, so that split and join are computed    *)
(* and not assumed.  Line numbers are 1-based as in the parser's loc.      *)
(***************************************************************************)
EXTENDS Integers, Sequences, FiniteSets, TLC

VARIABLES
    pc,         \* which step of the scenario has been taken
    functions,  \* the candidate list handed to deduplicateFunctions
    unique,     \* deduplicateFunctions(functions)
    again,      \* deduplicateFunctions(unique)
    file,       \* the source file of a request: its text and its syntax tree
    request,    \* the input object of the last request
    response,   \* the value returned for it
    locals,     \* the local variables of readTarget or readOutline when it
                \* returned
    history     \* the requests of a session and their results, in order

vars ==
    <<pc, functions, unique, again, file, request, response, locals, history>>

(***************************************************************************)
(* Bounds of the model.                                                    *)
(***************************************************************************)
MaxFuncs == 3          \* longest candidate list
MaxLine == 4           \* largest start line of a candidate record
MaxDecls == 3          \* most declarations in a file of the resolver scenario
MaxItems == 3          \* most items in a file of the extraction scenario
MaxContextLines == 3   \* largest contextLines a request supplies

(***************************************************************************)
(* Small helpers.                                                          *)
(***************************************************************************)
Abs(n) == IF n < 0 THEN -n ELSE n

Max2(a, b) == IF a > b THEN a ELSE b

Min2(a, b) == IF a < b THEN a ELSE b

MinOf(S) == CHOOSE x \in S : \A y \in S : x <= y

RemoveAt(s, j) == SubSeq(s, 1, j - 1) \o SubSeq(s, j + 1, Len(s))

SeqsUpTo(S, n) == UNION {[1..k -> S] : k \in 0..n}

(***************************************************************************)
(* deduplicateFunctions (read.js 700-727).                                 *)
(* A record keeps the fields the filter reads: name, line, type.  `seen`   *)
(* is the Map of the code as the sequence of its values in insertion order *)
(* (the key of an entry is computed from its value).                       *)
(***************************************************************************)
FuncNames == {"f", "g"}

FuncTypes == {"function_declaration", "arrow_function", "function_expression"}

FuncRecords == [name : FuncNames, line : 1..MaxLine, type : FuncTypes]

\* const key = `${func.name}:${func.line}:${func.type}`
FuncKey(func) == <<func.name, ":", func.line, ":", func.type>>

\* Nearby as changed by a plausible bug: the names are not compared.
NearbyAnyName(seen, func) ==
    {j \in 1..Len(seen) : Abs(seen[j].line - func.line) <= 2}

\* The entries of `seen` that the inner loop would stop at: same name, lines
\* within 2.
Nearby(seen, func) ==
    {j \in 1..Len(seen) :
        seen[j].name = func.name /\ Abs(seen[j].line - func.line) <= 2}

\* FilterStep as changed by a plausible bug: a skipped near-duplicate takes
\* the place of the entry it matched, so that `seen` follows the latest line.
FilterStepTrackLatest(seen, func) ==
    IF \E j \in 1..Len(seen) : FuncKey(seen[j]) = FuncKey(func)
    THEN [keep |-> FALSE, seen |-> seen]
    ELSE IF Nearby(seen, func) = {}
    THEN [keep |-> TRUE, seen |-> Append(seen, func)]
    ELSE LET j == MinOf(Nearby(seen, func))
         IN  [keep |-> func.type = "function_declaration"
                       /\ seen[j].type # "function_declaration",
              seen |-> Append(RemoveAt(seen, j), func)]

\* One call of the filter callback: whether func is kept, and the Map after.
FilterStep(seen, func) ==
    IF \E j \in 1..Len(seen) : FuncKey(seen[j]) = FuncKey(func)
    THEN [keep |-> FALSE, seen |-> seen]
    ELSE IF Nearby(seen, func) = {}
    THEN [keep |-> TRUE, seen |-> Append(seen, func)]
    ELSE LET j == MinOf(Nearby(seen, func))
         IN  IF func.type = "function_declaration"
                /\ seen[j].type # "function_declaration"
             THEN [keep |-> TRUE, seen |-> Append(RemoveAt(seen, j), func)]
             ELSE [keep |-> FALSE, seen |-> seen]

RECURSIVE FilterFrom(_, _, _, _)
FilterFrom(list, i, seen, out) ==
    IF i > Len(list) THEN out
    ELSE LET step == FilterStep(seen, list[i])
         IN  FilterFrom(list, i + 1, step.seen,
                        IF step.keep THEN Append(out, list[i]) ELSE out)

deduplicateFunctions(list) == FilterFrom(list, 1, <<>>, <<>>)

(***************************************************************************)
(* Strings and arrays.  A string is a sequence of tokens; the token "\n"   *)
(* is the line break.  Split, Join and Slice are String.prototype.split,   *)
(* Array.prototype.join and Array.prototype.slice.                         *)
(***************************************************************************)
Str(token) == <<token>>

RECURSIVE Split(_, _)
Split(s, sep) ==
    IF \E i \in 1..Len(s) : s[i] = sep
    THEN LET i == MinOf({k \in 1..Len(s) : s[k] = sep})
         IN  <<SubSeq(s, 1, i - 1)>> \o Split(SubSeq(s, i + 1, Len(s)), sep)
    ELSE <<s>>

RECURSIVE Join(_, _)
Join(parts, sep) ==
    IF Len(parts) = 0 THEN <<>>
    ELSE IF Len(parts) = 1 THEN parts[1]
    ELSE parts[1] \o <<sep>> \o Join(Tail(parts), sep)

\* A relative index of slice: negative counts from the end, then clamped.
SliceIndex(n, len) == IF n < 0 THEN Max2(len + n, 0) ELSE Min2(n, len)

\* array.slice(from, to): the elements at 0-based indices from .. to - 1.
Slice(array, from, to) ==
    SubSeq(array, SliceIndex(from, Len(array)) + 1, SliceIndex(to, Len(array)))

Includes(s, token) == \E i \in 1..Len(s) : s[i] = token

(***************************************************************************)
(* Source files.  A file is written as a sequence of items; its text and   *)
(* the nodes the parser reports for it, in traversal order and with their  *)
(* loc lines, follow from the layout of the items:                         *)
(*     blank      an empty line                                            *)
(*     function   function n {          (2 lines)                          *)
(*                }                                                        *)
(*     variable   const n = <init>      (1 line)                           *)
(*     class      class N {             (2 lines + 1 per member)           *)
(*                  m { }                                                  *)
(*                }                                                        *)
(*     import     import <specifiers> from '<source>'                      *)
(*                import '<source>'                no specifiers           *)
(*     require    const x = require(<source>)      style "bound"           *)
(*                const { x } = require(<source>)  style "destructured"    *)
(*                require(<source>)                style "bare"            *)
(*                const x = require(source)        style "computed"        *)
(*                const x = load(<source>)         style "other"           *)
(*     broken     function (                       text that does not parse *)
(*     export     export function n {   (2 lines)  form "function"         *)
(*                }                                                        *)
(*                export default n                 form "default"          *)
(*                export { n }                     form "list"             *)
(*     declared   [export] const|let|var n = <init>                        *)
(*     nesting    class N {             a declaration inside a method      *)
(*                  m {                                                    *)
(*                    <function or variable item>                          *)
(*                  }                                                      *)
(*                }                                                        *)
(*     inline     function n { } class N { }       order "function-first"  *)
(*                class N { } function n { }       order "class-first"     *)
(*     legacy     module.exports = { n, k }        form "object"           *)
(*                module.exports = function n { }  form "function"         *)
(*                module.exports = n               form "identifier"       *)
(*                exports.n = 1                    form "member"           *)
(* A class member is m { } with its modifiers before the name; the key of  *)
(* a method is an identifier or a string literal ('m' { }).                *)
(***************************************************************************)
Blank == [kind |-> "blank", name |-> "", init |-> "", members |-> <<>>]

FunctionItem(n) ==
    [kind |-> "function", name |-> n, init |-> "", members |-> <<>>]

VariableItem(n, init) ==
    [kind |-> "variable", name |-> n, init |-> init, members |-> <<>>]

ClassItem(n, members) ==
    [kind |-> "class", name |-> n, init |-> "", members |-> members]

Method(n) == [type |-> "ClassMethod", name |-> n]

Property(n) == [type |-> "ClassProperty", name |-> n]

ModifiedMethod(n, static, async) ==
    [type |-> "ClassMethod", name |-> n, key |-> "Identifier",
     static |-> static, async |-> async]

QuotedMethod(n) ==
    [type |-> "ClassMethod", name |-> n, key |-> "StringLiteral",
     static |-> FALSE, async |-> FALSE]

\* The type of the key of a member, and its static / async modifier.
MemberKey(member) ==
    IF "key" \in DOMAIN member THEN member.key ELSE "Identifier"

MemberFlag(member, flag) == flag \in DOMAIN member /\ member[flag]

DeclaredItem(kind, n, init, exported) ==
    [kind |-> "declared", declared |-> kind, name |-> n, init |-> init,
     exported |-> exported]

NestingClassItem(n, m, inner) ==
    [kind |-> "nesting", name |-> n, method |-> m, inner |-> inner]

InlineItem(order, n, c) ==
    [kind |-> "inline", order |-> order, name |-> n, class |-> c]

LegacyExportItem(form, n) == [kind |-> "legacy", form |-> form, name |-> n]

DefaultSpecifier(local) ==
    [type |-> "ImportDefaultSpecifier", local |-> local, imported |-> local]

NamedSpecifier(imported, local) ==
    [type |-> "ImportSpecifier", local |-> local, imported |-> imported]

NamespaceSpecifier(local) ==
    [type |-> "ImportNamespaceSpecifier", local |-> local, imported |-> ""]

ImportItem(specifiers, source) ==
    [kind |-> "import", specifiers |-> specifiers, source |-> source]

RequireItem(style, n, source) ==
    [kind |-> "require", style |-> style, name |-> n, source |-> source]

ExportItem(form, n) == [kind |-> "export", form |-> form, name |-> n]

Broken == [kind |-> "broken"]

SpecifierText(spec) ==
    CASE spec.type = "ImportDefaultSpecifier" -> <<spec.local>>
      [] spec.type = "ImportSpecifier" ->
            <<"{", spec.imported, "as", spec.local, "}">>
      [] spec.type = "ImportNamespaceSpecifier" -> <<"*", "as", spec.local>>

RECURSIVE SpecifiersText(_)
SpecifiersText(specifiers) ==
    IF Len(specifiers) = 0 THEN <<>>
    ELSE SpecifierText(Head(specifiers)) \o SpecifiersText(Tail(specifiers))

RequireLine(item) ==
    CASE item.style = "bound" ->
            <<"const", item.name, "=", "require", "(", "'", item.source, "'", ")">>
      [] item.style = "destructured" ->
            <<"const", "{", item.name, "}", "=", "require", "(", "'",
              item.source, "'", ")">>
      [] item.style = "bare" -> <<"require", "(", "'", item.source, "'", ")">>
      [] item.style = "computed" ->
            <<"const", item.name, "=", "require", "(", item.source, ")">>
      [] item.style = "other" ->
            <<"const", item.name, "=", "load", "(", "'", item.source, "'", ")">>

MemberText(member) ==
    <<member.type>>
    \o (IF MemberFlag(member, "static") THEN <<"static">> ELSE <<>>)
    \o (IF MemberFlag(member, "async") THEN <<"async">> ELSE <<>>)
    \o (IF MemberKey(member) = "StringLiteral"
        THEN <<"'", member.name, "'">> ELSE <<member.name>>)
    \o <<"{", "}">>

LegacyLine(item) ==
    CASE item.form = "object" ->
            <<"module", ".", "exports", "=", "{", item.name, ",", "k", "}">>
      [] item.form = "function" ->
            <<"module", ".", "exports", "=", "function", item.name, "{", "}">>
      [] item.form = "identifier" ->
            <<"module", ".", "exports", "=", item.name>>
      [] item.form = "member" -> <<"exports", ".", item.name, "=", "1">>

RECURSIVE ItemLines(_)
ItemLines(item) ==
    CASE item.kind = "blank" -> << <<>> >>
      [] item.kind = "declared" ->
            << (IF item.exported THEN <<"export">> ELSE <<>>)
               \o <<item.declared, item.name, "=", item.init>> >>
      [] item.kind = "nesting" ->
            << <<"class", item.name, "{">>, <<"ClassMethod", item.method, "{">> >>
            \o ItemLines(item.inner)
            \o << <<"}">>, <<"}">> >>
      [] item.kind = "inline" ->
            << IF item.order = "function-first"
               THEN <<"function", item.name, "{", "}", "class", item.class,
                      "{", "}">>
               ELSE <<"class", item.class, "{", "}", "function", item.name,
                      "{", "}">> >>
      [] item.kind = "legacy" -> << LegacyLine(item) >>
      [] item.kind = "broken" -> << <<"function", "(">> >>
      [] item.kind = "import" ->
            << <<"import">> \o SpecifiersText(item.specifiers)
               \o (IF Len(item.specifiers) = 0 THEN <<>> ELSE <<"from">>)
               \o <<"'", item.source, "'">> >>
      [] item.kind = "require" -> << RequireLine(item) >>
      [] item.kind = "export" /\ item.form = "function" ->
            << <<"export", "function", item.name, "{">>, <<"}">> >>
      [] item.kind = "export" /\ item.form = "default" ->
            << <<"export", "default", item.name>> >>
      [] item.kind = "export" /\ item.form = "list" ->
            << <<"export", "{", item.name, "}">> >>
      [] item.kind = "function" -> << <<"function", item.name, "{">>, <<"}">> >>
      [] item.kind = "variable" -> << <<"const", item.name, "=", item.init>> >>
      [] item.kind = "class" ->
            << <<"class", item.name, "{">> >>
            \o [i \in 1..Len(item.members) |-> MemberText(item.members[i])]
            \o << <<"}">> >>

Identifier(n) == [type |-> "Identifier", name |-> n]

StringLiteral(v) == [type |-> "StringLiteral", value |-> v]

Null == [type |-> "null"]

\* The nodes of a require item: the declarator, when there is one, and then
\* the call, whose path.parent is the declarator or the statement.
RequireNodes(item, line) ==
    LET id == IF item.style = "destructured"
              THEN [type |-> "ObjectPattern"] ELSE Identifier(item.name)
        parent == IF item.style = "bare"
                  THEN [type |-> "ExpressionStatement"]
                  ELSE [type |-> "VariableDeclarator", id |-> id]
        call == [type |-> "CallExpression",
                 callee |-> Identifier(IF item.style = "other"
                                       THEN "load" ELSE "require"),
                 arguments |-> IF item.style = "computed"
                               THEN <<Identifier(item.source)>>
                               ELSE <<StringLiteral(item.source)>>,
                 parent |-> parent, start |-> line, end |-> line]
    IN  IF item.style = "bare" THEN <<call>>
        ELSE << [type |-> "VariableDeclarator",
                 name |-> IF item.style = "destructured" THEN <<>>
                          ELSE Str(item.name),
                 init |-> "call", start |-> line, end |-> line,
                 body |-> <<>>, kind |-> "const", grandParent |-> "Program"],
                call >>

ExportNodes(item, line) ==
    CASE item.form = "function" ->
            << [type |-> "ExportNamedDeclaration",
                declaration |-> [type |-> "FunctionDeclaration",
                                 id |-> Identifier(item.name)],
                specifiers |-> <<>>, start |-> line, end |-> line + 1],
               [type |-> "FunctionDeclaration", name |-> Str(item.name),
                init |-> "", start |-> line, end |-> line + 1,
                body |-> <<>>, parent |-> "ExportNamedDeclaration"] >>
      [] item.form = "default" ->
            << [type |-> "ExportDefaultDeclaration",
                declaration |-> Identifier(item.name),
                start |-> line, end |-> line] >>
      [] item.form = "list" ->
            << [type |-> "ExportNamedDeclaration", declaration |-> Null,
                specifiers |-> << [type |-> "ExportSpecifier",
                                   exported |-> Identifier(item.name)] >>,
                start |-> line, end |-> line] >>

\* A member of a class body on the given line.
MemberNode(member, line) ==
    [type |-> member.type, name |-> Str(member.name),
     key |-> MemberKey(member), static |-> MemberFlag(member, "static"),
     async |-> MemberFlag(member, "async"), start |-> line, end |-> line]

\* The right-hand side and the left-hand side of a legacy export.
LegacyNodes(item, line) ==
    LET ModuleExports ==
            [type |-> "MemberExpression", object |-> Identifier("module"),
             property |-> Identifier("exports")]
        left == IF item.form = "member"
                THEN [type |-> "MemberExpression",
                      object |-> Identifier("exports"),
                      property |-> Identifier(item.name)]
                ELSE ModuleExports
        right == CASE item.form = "object" ->
                        [type |-> "ObjectExpression",
                         properties |-> <<Identifier(item.name),
                                          Identifier("k")>>]
                   [] item.form = "function" ->
                        [type |-> "FunctionExpression",
                         id |-> Identifier(item.name)]
                   [] item.form = "identifier" -> Identifier(item.name)
                   [] item.form = "member" -> [type |-> "NumericLiteral"]
    IN  << [type |-> "AssignmentExpression", left |-> left, right |-> right,
            start |-> line, end |-> line] >>

\* The nodes of an item that starts after `offset` lines of the file, in
\* traversal order: a node comes before the nodes inside it.
RECURSIVE ItemNodes(_, _)
ItemNodes(item, offset) ==
    CASE item.kind = "blank" -> <<>>
      [] item.kind = "declared" ->
            (IF item.exported
             THEN << [type |-> "ExportNamedDeclaration",
                      declaration |->
                         [type |-> "VariableDeclaration",
                          declarations |-> << [id |-> Identifier(item.name)] >>],
                      specifiers |-> <<>>,
                      start |-> offset + 1, end |-> offset + 1] >>
             ELSE <<>>)
            \o << [type |-> "VariableDeclarator", name |-> Str(item.name),
                   init |-> item.init, start |-> offset + 1,
                   end |-> offset + 1, body |-> <<>>, kind |-> item.declared,
                   grandParent |-> IF item.exported
                                   THEN "ExportNamedDeclaration"
                                   ELSE "Program"] >>
      [] item.kind = "nesting" ->
            << [type |-> "ClassDeclaration", name |-> Str(item.name),
                init |-> "", start |-> offset + 1,
                end |-> offset + 4 + Len(ItemLines(item.inner)),
                body |-> << [MemberNode(Method(item.method), offset + 2)
                             EXCEPT !.end =
                                offset + 3 + Len(ItemLines(item.inner))] >>] >>
            \o ItemNodes(item.inner, offset + 2)
      [] item.kind = "inline" ->
            LET function == [type |-> "FunctionDeclaration",
                             name |-> Str(item.name), init |-> "",
                             start |-> offset + 1, end |-> offset + 1,
                             body |-> <<>>]
                class == [type |-> "ClassDeclaration",
                          name |-> Str(item.class), init |-> "",
                          start |-> offset + 1, end |-> offset + 1,
                          body |-> <<>>]
            IN  IF item.order = "function-first" THEN <<function, class>>
                ELSE <<class, function>>
      [] item.kind = "legacy" -> LegacyNodes(item, offset + 1)
      [] item.kind = "broken" -> <<>>
      [] item.kind = "import" ->
            << [type |-> "ImportDeclaration",
                source |-> StringLiteral(item.source),
                specifiers |-> item.specifiers,
                start |-> offset + 1, end |-> offset + 1] >>
      [] item.kind = "require" -> RequireNodes(item, offset + 1)
      [] item.kind = "export" -> ExportNodes(item, offset + 1)
      [] item.kind = "function" ->
            << [type |-> "FunctionDeclaration", name |-> Str(item.name),
                init |-> "", start |-> offset + 1, end |-> offset + 2,
                body |-> <<>>] >>
      [] item.kind = "variable" ->
            << [type |-> "VariableDeclarator", name |-> Str(item.name),
                init |-> item.init, start |-> offset + 1, end |-> offset + 1,
                body |-> <<>>, kind |-> "const", grandParent |-> "Program"] >>
      [] item.kind = "class" ->
            << [type |-> "ClassDeclaration", name |-> Str(item.name),
                init |-> "", start |-> offset + 1,
                end |-> offset + 2 + Len(item.members),
                body |-> [i \in 1..Len(item.members) |->
                             MemberNode(item.members[i], offset + 1 + i)]] >>

RECURSIVE ProgramLines(_)
ProgramLines(items) ==
    IF Len(items) = 0 THEN <<>>
    ELSE ItemLines(Head(items)) \o ProgramLines(Tail(items))

RECURSIVE ProgramNodes(_, _)
ProgramNodes(items, offset) ==
    IF Len(items) = 0 THEN <<>>
    ELSE ItemNodes(Head(items), offset)
         \o ProgramNodes(Tail(items), offset + Len(ItemLines(Head(items))))

\* The file as the tool meets it: what readFileSync returns and what the
\* parser returns for that text.
NoError == [name |-> "", message |-> <<>>]

\* exists is what existsSync answers, readError what readFileSync throws,
\* error what parser.parse or traverse throws (NoError: nothing is thrown).
SourceFile(items) ==
    [exists |-> TRUE, readError |-> NoError,
     content |-> Join(ProgramLines(items), "\n"),
     error |-> NoError,
     ast |-> ProgramNodes(items, 0)]

\* A file the parser rejects with the given error.
UnparsableFile(items, error) ==
    [SourceFile(items) EXCEPT !.error = error, !.ast = <<>>]

\* A path that exists and cannot be read as a file.
UnreadableFile(error) ==
    [exists |-> TRUE, readError |-> error, content |-> <<>>,
     error |-> NoError, ast |-> <<>>]

MissingFile ==
    [exists |-> FALSE, readError |-> NoError, content |-> <<>>,
     error |-> NoError, ast |-> <<>>]

ClassNames == {"A", "B"}

MemberNames == {"f", "g"}

\* Declarations of the resolver scenario: functions, variables bound to an
\* arrow function, a function expression or another value, and classes.
ResolveItems ==
    {FunctionItem(n) : n \in MemberNames}
    \cup {VariableItem("f", i) : i \in {"arrow", "funcexpr", "other"}}
    \cup {ClassItem(c, m) :
            c \in ClassNames,
            m \in {<<>>, <<Method("f")>>, <<Property("f"), Method("g")>>}}

\* Items of the extraction scenario: blank lines around a few declarations.
ExtractItems ==
    {Blank, FunctionItem("f"), VariableItem("g", "arrow"),
     ClassItem("A", <<>>), ClassItem("B", <<Method("f")>>)}

ProgramsOver(items, n) == UNION {[1..k -> items] : k \in 1..n}

(***************************************************************************)
(* Requests.  An input object carries the fields the caller supplied;      *)
(* ReadFileSchema.parse fills in the defaults of the omitted ones.         *)
(***************************************************************************)
DefaultContextLines == 5

FallbackContextLines == 5

FilePath == "/src/a.js"

DefaultLinesAbove == 10

DefaultLinesBelow == 10

FallbackLinesAbove == 10

FallbackLinesBelow == 10

SchemaDefaults ==
    [mode |-> "full", linesAbove |-> DefaultLinesAbove,
     linesBelow |-> DefaultLinesBelow, context |-> TRUE,
     contextLines |-> DefaultContextLines, show_calls |-> FALSE,
     show_dependencies |-> FALSE, verbose |-> TRUE]

ReadFileSchemaParse(input) == input @@ SchemaDefaults

Supplied(input, field) == field \in DOMAIN input

\* The ways of supplying an optional field: omitted, or one of the values.
Optional(field, values) ==
    {<<>>} \cup {[x \in {field} |-> v] : v \in values}

TargetString(type, path) == <<type, ":">> \o path

Dotted(owner, member) == <<owner, ".", member>>

(***************************************************************************)
(* createError (read.js 137-146).                                          *)
(***************************************************************************)
createError(message, type, filePath, mode, hint) ==
    [success |-> FALSE, error |-> message, error_type |-> type,
     file_path |-> filePath, mode |-> mode, hint |-> hint]

\* The value of an argument that was not passed.  No hint of the tool is
\* the empty text, so the empty text stands for it.
Undefined == <<>>

(***************************************************************************)
(* Error messages are texts of word tokens.  toLowerCase maps each word,   *)
(* includes looks for a run of words.                                      *)
(***************************************************************************)
LowerCaseOf(token) ==
    CASE token = "Unexpected" -> "unexpected"
      [] token = "Unterminated" -> "unterminated"
      [] token = "EOF" -> "eof"
      [] token = "Missing" -> "missing"
      [] token = "EISDIR:" -> "eisdir:"
      [] token = "CONST" -> "const"
      [] OTHER -> token

toLowerCase(text) == [i \in 1..Len(text) |-> LowerCaseOf(text[i])]

IncludesText(text, part) ==
    \E i \in 1..(Len(text) - Len(part) + 1) :
        SubSeq(text, i, i + Len(part) - 1) = part

SyntaxHint ==
    <<"File may contain syntax errors or use unsupported JavaScript features.",
      "Try using", "mode='full'", "instead.">>

UnclosedHint ==
    <<"File appears to have unclosed brackets or strings.",
      "Check file syntax.">>

GenericHint ==
    <<"Try using", "mode='full'",
      "to read the entire file without parsing.">>

ModuleLoadingHint ==
    <<"Module loading error detected.", "This is a bug in the MCP server.",
      "Please report to developer with this error message.">>

\* getHelpfulHint as changed by a plausible bug: the message is searched
\* as it is, without toLowerCase.
getHelpfulHintCaseSensitive(error) ==
    LET message == error.message
    IN  IF IncludesText(message, <<"unexpected", "token">>) THEN SyntaxHint
        ELSE IF IncludesText(message, <<"eof">>)
                \/ IncludesText(message, <<"unterminated">>)
        THEN UnclosedHint
        ELSE GenericHint

\* getHelpfulHint (read.js 150-159).
getHelpfulHint(error) ==
    LET message == toLowerCase(error.message)
    IN  IF IncludesText(message, <<"unexpected", "token">>) THEN SyntaxHint
        ELSE IF IncludesText(message, <<"eof">>)
                \/ IncludesText(message, <<"unterminated">>)
        THEN UnclosedHint
        ELSE GenericHint

\* error.message || "Unknown error"
MessageOf(error) ==
    IF error.message = <<>> THEN <<"Unknown error">> ELSE error.message

(***************************************************************************)
(* readFull (read.js 163-173).                                             *)
(***************************************************************************)
readFull(filePath, content) ==
    [success |-> TRUE, mode |-> "full", file_path |-> filePath,
     line_count |-> Len(Split(content, "\n")),
     size_bytes |-> Len(content), content |-> content]

(***************************************************************************)
(* readLines (read.js 177-212).                                            *)
(***************************************************************************)
\* x || fallback, for a number x
OrElse(x, fallback) == IF x = 0 THEN fallback ELSE x

\* LineInRange as changed by a plausible bug: no check against the length.
LineInRangeNoUpperBound(targetLine, lines) == ~(targetLine < 1)

LineInRange(targetLine, lines) ==
    ~(targetLine < 1 \/ targetLine > Len(lines))

readLines(params, content) ==
    LET lines == Split(content, "\n")
        targetLine == params.line
        linesAbove == OrElse(params.linesAbove, FallbackLinesAbove)
        linesBelow == OrElse(params.linesBelow, FallbackLinesBelow)
        startLine == Max2(1, targetLine - linesAbove)
        endLine == Min2(Len(lines), targetLine + linesBelow)
        result ==
            [success |-> TRUE, mode |-> "lines", file_path |-> params.file_path,
             target_line |-> targetLine, start_line |-> startLine,
             end_line |-> endLine, total_lines |-> Len(lines),
             lines_above |-> targetLine - startLine,
             lines_below |-> endLine - targetLine,
             content |-> Join(Slice(lines, startLine - 1, endLine), "\n")]
    IN  IF ~LineInRange(targetLine, lines)
        THEN createError(<<"Line", ToString(targetLine),
                           "out of range (file has", ToString(Len(lines)),
                           "lines)">>,
                         "LINE_OUT_OF_RANGE", params.file_path, params.mode,
                         Undefined)
        ELSE IF params.verbose = FALSE
        THEN [summary |-> [line |-> targetLine, start |-> startLine,
                           end |-> endLine, total |-> Len(lines)]] @@ result
        ELSE result

(***************************************************************************)
(* readOutline (read.js 216-490).  The visitors act on the lists and the    *)
(* set of class lines that the call creates; a record of the outline       *)
(* carries the fields computed in read.js (name, line, type, methods,      *)
(* source, imported, raw), not those computed by shared.js.                *)
(***************************************************************************)
\* FreshOutlineState as changed by a plausible bug: the lists are created
\* once and not per call, so a call starts from what the last outline left.
LeftoverOutlineState ==
    LET outlines == {i \in 1..Len(history) :
                        /\ history[i].response.mode = "outline"
                        /\ history[i].response.success}
        last == history[CHOOSE i \in outlines : \A j \in outlines : j <= i]
    IN  IF outlines = {}
        THEN [functions |-> <<>>, classes |-> <<>>, imports |-> <<>>,
              exports |-> <<>>, classBodyLines |-> {}]
        ELSE [functions |-> last.response.structure.functions,
              classes |-> last.response.structure.classes,
              imports |-> last.response.structure.imports,
              exports |-> last.response.structure.exports,
              classBodyLines |-> {}]

\* const functions = [], classes = [], imports = [], exports = [],
\* classBodyLines = new Set(): new ones in every call.
FreshOutlineState ==
    [functions |-> <<>>, classes |-> <<>>, imports |-> <<>>,
     exports |-> <<>>, classBodyLines |-> {}]

RECURSIVE TrimStart(_)
TrimStart(text) ==
    IF Len(text) > 0 /\ Head(text) = " " THEN TrimStart(Tail(text)) ELSE text

RECURSIVE TrimEnd(_)
TrimEnd(text) ==
    IF Len(text) > 0 /\ text[Len(text)] = " "
    THEN TrimEnd(SubSeq(text, 1, Len(text) - 1)) ELSE text

\* content.split("\n")[index]?.trim() || "", for a 0-based index
RawLine(content, index) ==
    LET lines == Split(content, "\n")
    IN  IF index + 1 \in 1..Len(lines)
        THEN TrimStart(TrimEnd(lines[index + 1])) ELSE <<>>

\* OutlineFunction as changed by a plausible bug: the class spans are not
\* consulted.
OutlineFunctionAnywhere(st, node) ==
    IF node.name = <<>> THEN st
    ELSE [st EXCEPT !.functions =
            Append(@, [name |-> node.name, line |-> node.start,
                       type |-> "function_declaration"])]

OutlineFunction(st, node) ==
    IF node.name = <<>> \/ node.start \in st.classBodyLines THEN st
    ELSE [st EXCEPT !.functions =
            Append(@, [name |-> node.name, line |-> node.start,
                       type |-> "function_declaration"])]

OutlineVariable(st, node) ==
    IF node.name # <<>> /\ node.init \in {"arrow", "funcexpr"}
       /\ node.start \notin st.classBodyLines
    THEN [st EXCEPT !.functions =
            Append(@, [name |-> node.name, line |-> node.start,
                       type |-> IF node.init = "arrow" THEN "arrow_function"
                                ELSE "function_expression"])]
    ELSE st

\* OutlineMethods without the modifiers of the member.
OutlineMethodsUnflagged(node) ==
    LET RECURSIVE From(_)
        From(i) ==
            IF i > Len(node.body) THEN <<>>
            ELSE (IF node.body[i].type = "ClassMethod"
                     /\ node.body[i].key = "Identifier"
                  THEN << [name |-> node.body[i].name,
                           line |-> node.body[i].start,
                           async |-> FALSE, static |-> FALSE] >>
                  ELSE <<>>) \o From(i + 1)
    IN  From(1)

OutlineMethods(node) ==
    LET RECURSIVE From(_)
        From(i) ==
            IF i > Len(node.body) THEN <<>>
            ELSE (IF node.body[i].type = "ClassMethod"
                     /\ node.body[i].key = "Identifier"
                  THEN << [name |-> node.body[i].name,
                           line |-> node.body[i].start,
                           async |-> node.body[i].async,
                           static |-> node.body[i].static] >>
                  ELSE <<>>) \o From(i + 1)
    IN  From(1)

OutlineClass(st, node) ==
    IF node.name = <<>> THEN st
    ELSE [st EXCEPT
            !.classBodyLines = @ \cup (node.start .. node.end),
            !.classes = Append(@, [name |-> node.name, line |-> node.start,
                                   methods |-> OutlineMethods(node)])]

ImportedName(spec) ==
    CASE spec.type = "ImportDefaultSpecifier" -> <<spec.local>>
      [] spec.type = "ImportSpecifier" -> <<spec.imported>>
      [] spec.type = "ImportNamespaceSpecifier" -> <<"*", "as", spec.local>>
      [] OTHER -> <<"unknown">>

\* ImportDeclaration as changed by a plausible bug: a declaration without
\* specifiers (import 'x') is left out.
OutlineImportSpecifiedOnly(st, node, content) ==
    IF Len(node.specifiers) = 0 THEN st
    ELSE [st EXCEPT !.imports =
            Append(@, [source |-> node.source.value,
                       imported |-> [i \in 1..Len(node.specifiers) |->
                                        ImportedName(node.specifiers[i])],
                       line |-> node.start,
                       raw |-> RawLine(content, IF node.start # 0
                                                THEN node.start - 1 ELSE 0)])]

OutlineImport(st, node, content) ==
    [st EXCEPT !.imports =
        Append(@, [source |-> node.source.value,
                   imported |-> [i \in 1..Len(node.specifiers) |->
                                    ImportedName(node.specifiers[i])],
                   line |-> node.start,
                   raw |-> RawLine(content, IF node.start # 0
                                            THEN node.start - 1 ELSE 0)])]

OutlineCall(st, node, content) ==
    IF node.callee.type = "Identifier" /\ node.callee.name = "require"
       /\ Len(node.arguments) > 0
       /\ node.arguments[1].type = "StringLiteral"
    THEN LET parent == node.parent
             varName == IF parent.type = "VariableDeclarator"
                           /\ parent.id.type = "Identifier"
                        THEN parent.id.name ELSE "unknown"
         IN  [st EXCEPT !.imports =
                Append(@, [source |-> node.arguments[1].value,
                           imported |-> << <<varName>> >>,
                           line |-> node.start,
                           raw |-> RawLine(content, IF node.start # 0
                                                    THEN node.start - 1
                                                    ELSE 0)])]
    ELSE st

NamedExport(n, line, content) ==
    [type |-> "named", name |-> <<n>>, line |-> line,
     raw |-> RawLine(content, line - 1)]

OutlineExportNamed(st, node, content) ==
    LET line == node.start
        decl == node.declaration
    IN  IF decl.type # "null"
        THEN IF decl.type \in {"FunctionDeclaration", "ClassDeclaration"}
                /\ decl.id.type = "Identifier"
             THEN [st EXCEPT !.exports =
                      Append(@, NamedExport(decl.id.name, line, content))]
             ELSE IF decl.type = "VariableDeclaration"
             THEN [st EXCEPT !.exports =
                      @ \o SelectSeq(
                             [i \in 1..Len(decl.declarations) |->
                                 IF decl.declarations[i].id.type = "Identifier"
                                 THEN NamedExport(decl.declarations[i].id.name,
                                                  line, content)
                                 ELSE Null],
                             LAMBDA e : e # Null)]
             ELSE st
        ELSE [st EXCEPT !.exports =
                @ \o [i \in 1..Len(node.specifiers) |->
                         NamedExport(node.specifiers[i].exported.name,
                                     line, content)]]

OutlineExportDefault(st, node, content) ==
    LET decl == node.declaration
        name == IF decl.type \in {"FunctionDeclaration", "ClassDeclaration"}
                THEN (IF decl.id.type = "Identifier"
                      THEN <<decl.id.name>> ELSE Undefined)
                ELSE IF decl.type = "Identifier" THEN <<decl.name>>
                ELSE Undefined
    IN  [st EXCEPT !.exports =
            Append(@, [type |-> "default", name |-> name, line |-> node.start,
                       raw |-> RawLine(content, node.start - 1)])]

OutlineVisit(st, node, content) ==
    CASE node.type = "FunctionDeclaration" -> OutlineFunction(st, node)
      [] node.type = "VariableDeclarator" -> OutlineVariable(st, node)
      [] node.type = "ClassDeclaration" -> OutlineClass(st, node)
      [] node.type = "ImportDeclaration" -> OutlineImport(st, node, content)
      [] node.type = "CallExpression" -> OutlineCall(st, node, content)
      [] node.type = "ExportNamedDeclaration" ->
            OutlineExportNamed(st, node, content)
      [] node.type = "ExportDefaultDeclaration" ->
            OutlineExportDefault(st, node, content)
      [] OTHER -> st

RECURSIVE OutlineTraverse(_, _, _, _)
OutlineTraverse(ast, i, st, content) ==
    IF i > Len(ast) THEN st
    ELSE OutlineTraverse(ast, i + 1, OutlineVisit(st, ast[i], content), content)

EmptyStructure ==
    [functions |-> <<>>, classes |-> <<>>, imports |-> <<>>, exports |-> <<>>]

\* OutlineFailure as changed by a plausible bug: the error is swallowed and
\* the empty lists are returned as a success.
OutlineFailureSilentlyEmpty(params, error) ==
    [success |-> TRUE, mode |-> "outline", file_path |-> params.file_path,
     structure |-> EmptyStructure,
     stats |-> [function_count |-> 0, class_count |-> 0, import_count |-> 0,
                export_count |-> 0]]

\* The catch block of readOutline (read.js 469-489).
OutlineFailure(params, error) ==
    LET errorMsg == MessageOf(error)
        isTraverseError == IncludesText(errorMsg, <<"traverse">>)
                           \/ IncludesText(errorMsg, <<"not a function">>)
    IN  [success |-> FALSE,
         error |-> <<"Failed to parse file:">> \o errorMsg,
         error_type |-> error.name,
         file_path |-> params.file_path,
         mode |-> "outline",
         hint |-> IF isTraverseError THEN ModuleLoadingHint
                  ELSE getHelpfulHint(error),
         partial_structure |-> EmptyStructure]

\* The functions array of readOutline when the traversal has ended, before
\* deduplicateFunctions filters it (read.js 233, 440).
outlineFunctions(source) ==
    IF source.error # NoError THEN <<>>
    ELSE OutlineTraverse(source.ast, 1, FreshOutlineState,
                         source.content).functions

readOutline(params, source) ==
    IF source.error # NoError
    THEN OutlineFailure(params, source.error)
    ELSE LET st == OutlineTraverse(source.ast, 1, FreshOutlineState,
                                     source.content)
             uniqueFunctions == deduplicateFunctions(st.functions)
             stats == [function_count |-> Len(uniqueFunctions),
                       class_count |-> Len(st.classes),
                       import_count |-> Len(st.imports),
                       export_count |-> Len(st.exports)]
             fullData ==
                [success |-> TRUE, mode |-> "outline",
                 file_path |-> params.file_path,
                 structure |-> [functions |-> uniqueFunctions,
                                classes |-> st.classes,
                                imports |-> st.imports,
                                exports |-> st.exports],
                 stats |-> stats]
         IN  IF params.verbose = FALSE
             THEN [summary |-> stats] @@ fullData
             ELSE fullData

(***************************************************************************)
(* readTarget (read.js 494-669), for the targets that name a function, a   *)
(* method or a class.                                                      *)
(***************************************************************************)
\* const contextLines = params.contextLines || 5
ContextLinesOf(params) ==
    IF params.contextLines = 0 THEN FallbackContextLines
    ELSE params.contextLines

\* ContextStart as changed by a plausible bug: no clamp at the first line.
ContextStartNoClamp(start, contextLines) == start - contextLines

\* const contextStart = Math.max(0, start - contextLines)
ContextStart(start, contextLines) == Max2(0, start - contextLines)

\* const contextEnd = Math.min(lines.length, end + contextLines)
ContextEnd(lines, end, contextLines) == Min2(Len(lines), end + contextLines)

\* CodeLines as changed by a plausible bug: the 1-based start line used as
\* the 0-based index.
CodeLinesFromStart(lines, start, end) == Slice(lines, start, end)

\* lines.slice(start - 1, end)
CodeLines(lines, start, end) == Slice(lines, start - 1, end)

\* lines.slice(contextStart, start - 1)
BeforeLines(lines, contextStart, start) == Slice(lines, contextStart, start - 1)

\* AfterLines as changed by a plausible bug: the slice starts one line late.
AfterLinesSkipOne(lines, end, contextEnd) == Slice(lines, end + 1, contextEnd)

\* lines.slice(end, contextEnd)
AfterLines(lines, end, contextEnd) == Slice(lines, end, contextEnd)

\* The helper extractCode: the result object, with class_name only when a
\* class name is given.  `cls` is the empty string when the argument is
\* omitted.
extractCode(lines, params, start, end, type, name, cls) ==
    LET contextLines == ContextLinesOf(params)
        contextStart == ContextStart(start, contextLines)
        contextEnd == ContextEnd(lines, end, contextLines)
    IN  (IF cls # <<>> THEN [class_name |-> cls] ELSE <<>>)
        @@ [success |-> TRUE, mode |-> "target", target_type |-> type,
            target_name |-> name, line |-> start, end_line |-> end,
            code |-> Join(CodeLines(lines, start, end), "\n"),
            context_before |->
                IF params.context
                THEN Join(BeforeLines(lines, contextStart, start), "\n")
                ELSE <<>>,
            context_after |->
                IF params.context
                THEN Join(AfterLines(lines, end, contextEnd), "\n")
                ELSE <<>>]

\* The target string taken apart: its type, its path, and the class name and
\* member name of a dotted path (className is empty, hence falsy, where the
\* code has null).
TargetOf(params) ==
    LET targetParts == Split(params.target, ":")
        targetPath == IF Len(targetParts) >= 2 THEN targetParts[2] ELSE <<>>
        parts == Split(targetPath, ".")
        dotted == Includes(targetPath, ".")
    IN  [targetType |-> targetParts[1],
         targetPath |-> targetPath,
         className |-> IF dotted THEN parts[1] ELSE <<>>,
         targetName |-> IF dotted THEN parts[2] ELSE targetPath]

\* node.body.body.find(member => isClassMethod && isIdentifier(key) &&
\* key.name === targetName): the indices of such members, in order.
MethodsNamed(node, targetName) ==
    {i \in 1..Len(node.body) :
        /\ node.body[i].type = "ClassMethod"
        /\ node.body[i].key = "Identifier"
        /\ node.body[i].name = targetName}

NoMatch == [found |-> FALSE]

Match(start, end, type, cls) ==
    [found |-> TRUE, start |-> start, end |-> end, type |-> type, cls |-> cls]

\* VisitClass as changed by a plausible bug: the search of a method in any
\* class is made for 'method:' targets only, not for 'function:' targets.
VisitClassMethodTargetsOnly(node, tg) ==
    IF tg.targetType = Str("class") /\ tg.className = <<>>
       /\ node.name = tg.targetName
    THEN Match(node.start, node.end, "class", <<>>)
    ELSE IF tg.targetType \in {Str("class"), Str("method")}
            /\ tg.className # <<>> /\ node.name = tg.className
            /\ MethodsNamed(node, tg.targetName) # {}
    THEN LET method == node.body[MinOf(MethodsNamed(node, tg.targetName))]
         IN  Match(method.start, method.end, "method", tg.className)
    ELSE IF tg.targetType = Str("method")
            /\ tg.className = <<>>
            /\ MethodsNamed(node, tg.targetName) # {}
    THEN LET method == node.body[MinOf(MethodsNamed(node, tg.targetName))]
         IN  Match(method.start, method.end, "method", node.name)
    ELSE NoMatch

\* The ClassDeclaration visitor of readTarget.
VisitClass(node, tg) ==
    IF tg.targetType = Str("class") /\ tg.className = <<>>
       /\ node.name = tg.targetName
    THEN Match(node.start, node.end, "class", <<>>)
    ELSE IF tg.targetType \in {Str("class"), Str("method")}
            /\ tg.className # <<>> /\ node.name = tg.className
            /\ MethodsNamed(node, tg.targetName) # {}
    THEN LET method == node.body[MinOf(MethodsNamed(node, tg.targetName))]
         IN  Match(method.start, method.end, "method", tg.className)
    ELSE IF tg.targetType \in {Str("method"), Str("function")}
            /\ tg.className = <<>>
            /\ MethodsNamed(node, tg.targetName) # {}
    THEN LET method == node.body[MinOf(MethodsNamed(node, tg.targetName))]
         IN  Match(method.start, method.end, "method", node.name)
    ELSE NoMatch

\* The FunctionDeclaration visitor of readTarget.
VisitFunction(node, tg) ==
    IF tg.targetType = Str("function") /\ node.name = tg.targetName
    THEN Match(node.start, node.end, "function", <<>>)
    ELSE NoMatch

\* The VariableDeclarator visitor of readTarget.
VisitVariable(node, tg) ==
    IF tg.targetType = Str("function") /\ node.name = tg.targetName
       /\ node.init \in {"arrow", "funcexpr"}
    THEN Match(node.start, node.end, "function", <<>>)
    ELSE NoMatch

Visit(node, tg) ==
    CASE node.type = "ClassDeclaration" -> VisitClass(node, tg)
      [] node.type = "FunctionDeclaration" -> VisitFunction(node, tg)
      [] node.type = "VariableDeclarator" -> VisitVariable(node, tg)
      [] OTHER -> NoMatch

\* Traverse as changed by a plausible bug: no path.stop(), so that a later
\* match overwrites the result of an earlier one.
RECURSIVE TraverseWithoutStop(_, _, _)
TraverseWithoutStop(ast, i, tg) ==
    IF i > Len(ast) THEN NoMatch
    ELSE LET rest == TraverseWithoutStop(ast, i + 1, tg)
         IN  IF rest.found THEN rest ELSE Visit(ast[i], tg)

\* traverseFn(ast, visitors): the nodes are visited in traversal order and
\* the visitor that finds the target stops the traversal (path.stop()).
RECURSIVE Traverse(_, _, _)
Traverse(ast, i, tg) ==
    IF i > Len(ast) THEN NoMatch
    ELSE IF Visit(ast[i], tg).found THEN Visit(ast[i], tg)
    ELSE Traverse(ast, i + 1, tg)

\* NotFoundHint as changed by a plausible bug: the generic hint, whatever the
\* target was.
NotFoundHintGeneric(tg) ==
    <<"Try using", "mode='outline'", "first to see available entities">>

\* The hint of a TARGET_NOT_FOUND error.
NotFoundHint(tg) ==
    IF tg.targetType \in {Str("function"), Str("method")}
    THEN <<"Method '">> \o tg.targetName
         \o <<"' not found. If it's a class method, try:",
              "'class:ClassName.">> \o tg.targetName
         \o <<"' (if you know the class name)", "'method:">> \o tg.targetName
         \o <<"' (to search all classes)",
              "Use", "mode='outline'", "to see all available methods">>
    ELSE IF tg.targetType = Str("class") /\ tg.className # <<>>
    THEN <<"Method '">> \o tg.targetName \o <<"' not found in class '">>
         \o tg.className
         \o <<"'.", "Use", "mode='outline'", "to see all methods in this class.">>
    ELSE <<"Try using", "mode='outline'", "first to see available entities">>

\* The summary added to a result when verbose is false.
Summary(result) ==
    LET lineCount == result.end_line - result.line + 1
    IN  [summary |->
            [entityType |-> result.target_type,
             entityName |->
                IF "class_name" \in DOMAIN result
                THEN result.class_name \o <<".">> \o result.target_name
                ELSE result.target_name,
             lineCount |-> lineCount,
             plural |-> lineCount # 1]]

\* The imports and exports targets: the list of the outline, or the
\* failure of the outline as it is.
ListTarget(params, source, list) ==
    LET outline == readOutline(params, source)
    IN  IF outline.success
        THEN LET result == [success |-> TRUE, mode |-> "target",
                            target_type |-> list]
                           @@ [x \in {list} |-> outline.structure[list]]
             IN  IF params.verbose = FALSE
                 THEN [summary |-> [count |-> Len(outline.structure[list]),
                                    plural |-> Len(outline.structure[list]) # 1]]
                      @@ result
                 ELSE result
        ELSE outline

\* readTarget: the value returned and the locals it was computed from.
readTarget(params, source) ==
    LET tg == TargetOf(params)
        lines == Split(source.content, "\n")
        contextLines == ContextLinesOf(params)
        m == Traverse(source.ast, 1, tg)
    IN  IF tg.targetType \in {Str("imports"), Str("exports")}
        THEN [response |-> ListTarget(params, source, tg.targetType[1]),
              locals |-> [contextLines |-> 0]]
        ELSE IF source.error # NoError
        THEN [response |->
                createError(<<"Failed to extract target:">>
                                \o source.error.message,
                            source.error.name, params.file_path, params.mode,
                            Undefined),
              locals |-> [contextLines |-> 0]]
        ELSE IF m.found
        THEN LET result == extractCode(lines, params, m.start, m.end, m.type,
                                       tg.targetName, m.cls)
             IN  [response |-> IF params.verbose = FALSE
                               THEN Summary(result) @@ result
                               ELSE result,
                  locals |-> [contextLines |-> contextLines,
                              contextStart |-> ContextStart(m.start, contextLines),
                              contextEnd |-> ContextEnd(lines, m.end, contextLines)]]
        ELSE [response |->
                createError(tg.targetType \o <<"'">> \o tg.targetPath
                                \o <<"' not found in file">>,
                            "TARGET_NOT_FOUND", params.file_path, params.mode,
                            NotFoundHint(tg)),
              locals |-> [contextLines |-> contextLines]]

(***************************************************************************)
(* execute (read.js 102-133).  A request that ReadFileSchema.parse rejects  *)
(* makes execute throw: the outcome is then the exception, not a record.   *)
(***************************************************************************)
Modes == {"full", "outline", "target", "lines"}

\* The inputs ReadFileSchema accepts: file_path is required, mode is one of
\* the enum when it is supplied.
SchemaAccepts(input) ==
    /\ Supplied(input, "file_path")
    /\ Supplied(input, "mode") => input.mode \in Modes

Throw(name) == [thrown |-> TRUE, name |-> name]

\* !params.line: the number was omitted or is 0
MissingNumber(params, field) ==
    ~Supplied(params, field) \/ params[field] = 0

\* !params.target: the string was omitted or is empty
MissingString(params, field) ==
    ~Supplied(params, field) \/ params[field] = <<>>

\* Dispatch as changed by a plausible bug: the text is parsed before the
\* switch on the mode, and a parse failure is returned whatever the mode.
DispatchParsingFirst(params, source) ==
    IF source.error # NoError
    THEN [response |-> createError(source.error.message, source.error.name,
                                   params.file_path, params.mode, Undefined),
          locals |-> [contextLines |-> 0]]
    ELSE CASE params.mode = "full" ->
                 [response |-> readFull(params.file_path, source.content),
                  locals |-> [contextLines |-> 0]]
           [] params.mode = "outline" ->
                 [response |-> readOutline(params, source),
                  locals |-> [contextLines |-> 0,
                              functions |-> outlineFunctions(source)]]
           [] params.mode = "lines" ->
                 [response |->
                     IF MissingNumber(params, "line")
                     THEN createError(<<"line parameter required when mode='lines'">>,
                                      "MISSING_LINE", params.file_path, params.mode,
                                      Undefined)
                     ELSE readLines(params, source.content),
                  locals |-> [contextLines |-> 0]]
           [] params.mode = "target" ->
                 IF MissingString(params, "target")
                 THEN [response |->
                         createError(<<"target parameter required when mode='target'">>,
                                     "MISSING_TARGET", params.file_path, params.mode,
                                     Undefined),
                       locals |-> [contextLines |-> 0]]
                 ELSE readTarget(params, source)
           [] OTHER ->
                 [response |->
                     createError(<<"Unknown mode:", params.mode>>, "INVALID_MODE",
                                 params.file_path, params.mode, Undefined),
                  locals |-> [contextLines |-> 0]]

Dispatch(params, source) ==
    CASE params.mode = "full" ->
            [response |-> readFull(params.file_path, source.content),
             locals |-> [contextLines |-> 0]]
      [] params.mode = "outline" ->
            [response |-> readOutline(params, source),
             locals |-> [contextLines |-> 0,
                         functions |-> outlineFunctions(source)]]
      [] params.mode = "lines" ->
            [response |->
                IF MissingNumber(params, "line")
                THEN createError(<<"line parameter required when mode='lines'">>,
                                 "MISSING_LINE", params.file_path, params.mode,
                                 Undefined)
                ELSE readLines(params, source.content),
             locals |-> [contextLines |-> 0]]
      [] params.mode = "target" ->
            IF MissingString(params, "target")
            THEN [response |->
                    createError(<<"target parameter required when mode='target'">>,
                                "MISSING_TARGET", params.file_path, params.mode,
                                Undefined),
                  locals |-> [contextLines |-> 0]]
            ELSE readTarget(params, source)
      [] OTHER ->
            [response |->
                createError(<<"Unknown mode:", params.mode>>, "INVALID_MODE",
                            params.file_path, params.mode, Undefined),
             locals |-> [contextLines |-> 0]]

\* execute as changed by a plausible bug: the parameter that the mode
\* requires is looked for before the path is.
executeParametersFirst(input, source) ==
    IF ~SchemaAccepts(input)
    THEN [response |-> Throw("ZodError"), locals |-> [contextLines |-> 0]]
    ELSE LET params == ReadFileSchemaParse(input)
         IN  IF params.mode = "lines" /\ MissingNumber(params, "line")
             THEN [response |->
                     createError(<<"line parameter required when mode='lines'">>,
                                 "MISSING_LINE", params.file_path,
                                 params.mode, Undefined),
                   locals |-> [contextLines |-> 0]]
             ELSE IF params.mode = "target" /\ MissingString(params, "target")
             THEN [response |->
                     createError(<<"target parameter required when mode='target'">>,
                                 "MISSING_TARGET", params.file_path,
                                 params.mode, Undefined),
                   locals |-> [contextLines |-> 0]]
             ELSE IF ~source.exists
             THEN [response |->
                     createError(<<"File not found:", params.file_path>>,
                                 "FILE_NOT_FOUND", params.file_path,
                                 params.mode, Undefined),
                   locals |-> [contextLines |-> 0]]
             ELSE IF source.readError # NoError
             THEN [response |->
                     createError(MessageOf(source.readError),
                                 source.readError.name, params.file_path,
                                 params.mode,
                                 getHelpfulHint(source.readError)),
                   locals |-> [contextLines |-> 0]]
             ELSE Dispatch(params, source)

execute(input, source) ==
    IF ~SchemaAccepts(input)
    THEN [response |-> Throw("ZodError"), locals |-> [contextLines |-> 0]]
    ELSE LET params == ReadFileSchemaParse(input)
         IN  IF ~source.exists
             THEN [response |->
                     createError(<<"File not found:", params.file_path>>,
                                 "FILE_NOT_FOUND", params.file_path,
                                 params.mode, Undefined),
                   locals |-> [contextLines |-> 0]]
             ELSE IF source.readError # NoError
             THEN [response |->
                     createError(MessageOf(source.readError),
                                 source.readError.name, params.file_path,
                                 params.mode,
                                 getHelpfulHint(source.readError)),
                   locals |-> [contextLines |-> 0]]
             ELSE Dispatch(params, source)

(***************************************************************************)
(* The search operation (grep.ts): execute, its error records and, of the  *)
(* visitors of searchFile, those that act for the structural types         *)
(* function, variable, class and import, with their modifier filter.  A    *)
(* search of type "all" also runs the visitors of exports, calls,          *)
(* identifiers and string literals, which are not part of this model; the  *)
(* scenarios issue no such search.  Patterns are plain words or ".*" and   *)
(* names single tokens, so the regular expression of a word matches a name *)
(* exactly when the name is the pattern.                                   *)
(***************************************************************************)
Cwd == "/src"

grepCreateError(message, type, filePath) ==
    [success |-> FALSE,
     error |-> [message |-> message, type |-> type, file_path |-> filePath]]

GrepDefaults ==
    [case_insensitive |-> FALSE, line_numbers |-> TRUE,
     output_mode |-> "content", include_non_code |-> FALSE]

\* new RegExp(pattern).test(name), for the patterns of the model: a name of
\* the file, which matches itself alone among the names of the model, and
\* ".*", which matches every name.
RegexTest(pattern, name) == pattern = ".*" \/ name = Str(pattern)

\* params.modifiers?.map(m => m.toLowerCase()) || []
RequiredModifiers(params) ==
    IF Supplied(params, "modifiers") THEN toLowerCase(params.modifiers)
    ELSE <<>>

\* requiredModifiers.includes(params.pattern?.toLowerCase())
IsModifierPattern(params) ==
    \E i \in 1..Len(RequiredModifiers(params)) :
        RequiredModifiers(params)[i] = LowerCaseOf(params.pattern)

\* The parent of a node, as matchesModifiers looks at it: its type and, for
\* a variable declaration, its kind.  The parent of a declaration that is
\* not exported is the program.
ParentOf(node) ==
    IF "parent" \in DOMAIN node THEN [type |-> node.parent]
    ELSE [type |-> "Program"]

\* matchesModifiers (grep.ts 315-342); no node of the model has an
\* accessibility.
matchesModifiers(node, parent, requiredModifiers) ==
    LET nodeModifiers ==
            (IF MemberFlag(node, "async") THEN {"async"} ELSE {})
            \cup (IF MemberFlag(node, "static") THEN {"static"} ELSE {})
            \cup (IF parent.type \in {"ExportNamedDeclaration",
                                      "ExportDefaultDeclaration"}
                  THEN {"export"} ELSE {})
            \cup (IF parent.type = "VariableDeclaration"
                  THEN {parent.kind} ELSE {})
    IN  \/ Len(requiredModifiers) = 0
        \/ \A i \in 1..Len(requiredModifiers) :
              requiredModifiers[i] \in nodeModifiers

\* matchesModifiers(node.init || node, grandParent || parent) of the
\* VariableDeclarator visitor (grep.ts 399): the declaration around a
\* declarator always has a parent of its own (the program, an export
\* declaration), so grandParent is never undefined.
DeclaratorMatchesModifiers(node, requiredModifiers) ==
    LET parent == [type |-> "VariableDeclaration", kind |-> node.kind]
        grandParent == [type |-> node.grandParent]
    IN  matchesModifiers([async |-> FALSE],
                         IF grandParent.type # "" THEN grandParent
                         ELSE parent,
                         requiredModifiers)

SearchType(params) ==
    IF Supplied(params, "type") /\ params.type # "" THEN params.type ELSE "all"

SearchMatch(node, type, name) ==
    << [file |-> FilePath, line |-> node.start, match_type |-> type,
        name |-> name] >>

SearchMethods(node, params) ==
    LET RECURSIVE From(_)
        From(i) ==
            IF i > Len(node.body) THEN <<>>
            ELSE (IF node.body[i].type = "ClassMethod"
                     /\ SearchType(params) \in {"all", "function"}
                     /\ matchesModifiers(node.body[i], [type |-> "ClassBody"],
                                         RequiredModifiers(params))
                     /\ node.body[i].key = "Identifier"
                     /\ \/ IsModifierPattern(params)
                        \/ RegexTest(params.pattern, node.body[i].name)
                  THEN SearchMatch(node.body[i], "class_method",
                                   node.body[i].name)
                  ELSE <<>>) \o From(i + 1)
    IN  From(1)

SearchVisit(node, params) ==
    LET searchType == SearchType(params)
        isFunctionValue == node.init \in {"arrow", "funcexpr"}
    IN  CASE node.type = "FunctionDeclaration" ->
                IF searchType \in {"all", "function"}
                   /\ matchesModifiers(node, ParentOf(node),
                                       RequiredModifiers(params))
                   /\ \/ IsModifierPattern(params)
                      \/ node.name # <<>>
                         /\ RegexTest(params.pattern, node.name)
                THEN SearchMatch(node, "function_declaration", node.name)
                ELSE <<>>
          [] node.type = "VariableDeclarator" ->
                IF searchType \in {"all", "function", "variable"}
                   /\ node.name # <<>>
                   /\ DeclaratorMatchesModifiers(node,
                                                 RequiredModifiers(params))
                   /\ \/ searchType = "function" /\ isFunctionValue
                      \/ searchType = "variable" /\ ~isFunctionValue
                      \/ searchType = "all"
                   /\ \/ IsModifierPattern(params)
                      \/ RegexTest(params.pattern, node.name)
                THEN SearchMatch(node,
                                 IF node.init = "arrow" THEN "arrow_function"
                                 ELSE IF node.init = "funcexpr"
                                 THEN "function_expression" ELSE "variable",
                                 node.name)
                ELSE <<>>
          [] node.type = "ClassDeclaration" ->
                (IF searchType \in {"all", "class"}
                    /\ RegexTest(params.pattern, node.name)
                 THEN SearchMatch(node, "class_declaration", node.name)
                 ELSE <<>>) \o SearchMethods(node, params)
          [] node.type = "ImportDeclaration" ->
                IF searchType \in {"all", "import"}
                   /\ RegexTest(params.pattern, Str(node.source.value))
                THEN SearchMatch(node, "import", Str(node.source.value))
                ELSE <<>>
          [] node.type = "CallExpression" ->
                IF searchType \in {"all", "import"}
                   /\ node.callee.type = "Identifier"
                   /\ node.callee.name = "require"
                   /\ Len(node.arguments) > 0
                   /\ node.arguments[1].type = "StringLiteral"
                   /\ RegexTest(params.pattern, Str(node.arguments[1].value))
                THEN SearchMatch(node, "commonjs_import",
                                 Str(node.arguments[1].value))
                ELSE <<>>
          [] OTHER -> <<>>

RECURSIVE SearchTraverse(_, _, _)
SearchTraverse(ast, i, params) ==
    IF i > Len(ast) THEN <<>>
    ELSE SearchVisit(ast[i], params) \o SearchTraverse(ast, i + 1, params)

\* searchFile: a file that does not parse is logged and gives no match.
searchFile(source, params) ==
    IF source.error # NoError THEN <<>>
    ELSE SearchTraverse(source.ast, 1, params)

grepExecute(input, source) ==
    IF ~Supplied(input, "pattern")
    THEN grepCreateError(<<"Invalid input:", "Required">>, "VALIDATION_ERROR",
                         Undefined)
    ELSE LET params == input @@ GrepDefaults
             searchPath == IF Supplied(params, "path") /\ params.path # ""
                           THEN params.path ELSE Cwd
             isFile == searchPath = FilePath /\ source.readError = NoError
             filesToSearch == IF source.exists /\ source.readError = NoError
                              THEN <<source>> ELSE <<>>
             allMatches == IF filesToSearch = <<>> THEN <<>>
                           ELSE searchFile(source, params)
             limited == Supplied(params, "head_limit") /\ params.head_limit # 0
         IN  IF searchPath = FilePath /\ ~source.exists
             THEN grepCreateError(<<"Path not found:", searchPath>>,
                                  "PATH_NOT_FOUND", searchPath)
             ELSE IF filesToSearch = <<>>
             THEN [success |-> TRUE, total_matches |-> 0, files_searched |-> 0,
                   matches |-> <<>>,
                   message |-> <<"No code files found in search path">>]
             ELSE IF params.output_mode = "file_paths"
             THEN [success |-> TRUE, total_matches |-> Len(allMatches),
                   files_searched |-> Len(filesToSearch),
                   files |-> IF allMatches = <<>> THEN <<>> ELSE <<FilePath>>]
             ELSE [success |-> TRUE, total_matches |-> Len(allMatches),
                   files_searched |-> Len(filesToSearch),
                   matches |-> IF limited
                               THEN Slice(allMatches, 0, params.head_limit)
                               ELSE allMatches,
                   truncated |-> limited
                                 /\ Len(allMatches) > params.head_limit]

(***************************************************************************)
(* Scenario of the deduplicator: a candidate list is drawn, deduplicated,  *)
(* and the result deduplicated once more.                                  *)
(***************************************************************************)
NoFile == MissingFile

NoRequest == [mode |-> "none"]

NoResponse == [mode |-> "none"]

NoLocals == [contextLines |-> 0]

InitDedupe ==
    /\ pc = "candidates"
    /\ functions \in SeqsUpTo(FuncRecords, MaxFuncs)
    /\ unique = <<>>
    /\ again = <<>>
    /\ file = NoFile
    /\ request = NoRequest
    /\ response = NoResponse
    /\ locals = NoLocals
    /\ history = <<>>

Dedupe ==
    /\ pc = "candidates"
    /\ unique' = deduplicateFunctions(functions)
    /\ pc' = "deduped"
    /\ UNCHANGED <<functions, again, file, request, response, locals, history>>

DedupeAgain ==
    /\ pc = "deduped"
    /\ again' = deduplicateFunctions(unique)
    /\ pc' = "rerun"
    /\ UNCHANGED <<functions, unique, file, request, response, locals, history>>

NextDedupe == Dedupe \/ DedupeAgain

SpecDedupe == InitDedupe /\ [][NextDedupe]_vars

(***************************************************************************)
(* Scenarios of the target resolver.  A file is drawn; then one target      *)
(* request is served, by the whole handler.                                *)
(* The resolver scenario varies the declarations of the file and the       *)
(* target; the extraction scenario varies the lines around the target and  *)
(* the context parameters.                                                 *)
(***************************************************************************)
ResolveTargets ==
    {TargetString(type, path) :
        type \in {"function", "method", "class"},
        path \in {Str(n) : n \in MemberNames \cup ClassNames}
                 \cup {Dotted(c, n) : c \in ClassNames, n \in MemberNames}}

ResolveInputs ==
    {[file_path |-> FilePath, mode |-> "target", target |-> t] :
        t \in ResolveTargets}

ExtractTargets ==
    {TargetString("function", Str("f")), TargetString("function", Str("g")),
     TargetString("class", Str("A")), TargetString("class", Str("B")),
     TargetString("class", Dotted("B", "f")),
     TargetString("method", Str("f"))}

ExtractInputs ==
    {[file_path |-> FilePath, mode |-> "target", target |-> t] @@ c @@ k @@ v :
        t \in ExtractTargets,
        c \in Optional("context", BOOLEAN),
        k \in Optional("contextLines", 0..MaxContextLines),
        v \in Optional("verbose", {FALSE})}

InitTarget(files) ==
    /\ pc = "idle"
    /\ functions = <<>>
    /\ unique = <<>>
    /\ again = <<>>
    /\ file \in files
    /\ request = NoRequest
    /\ response = NoResponse
    /\ locals = NoLocals
    /\ history = <<>>

\* execute in target mode on an existing file, with a target supplied.
TargetRequest(inputs) ==
    \E input \in inputs :
        LET r == readTarget(ReadFileSchemaParse(input), file)
        IN  /\ pc = "idle"
            /\ request' = input
            /\ response' = r.response
            /\ locals' = r.locals
            /\ pc' = "served"
            /\ UNCHANGED <<functions, unique, again, file, history>>

InitResolve ==
    InitTarget({SourceFile(p) : p \in ProgramsOver(ResolveItems, MaxDecls)})

NextResolve == TargetRequest(ResolveInputs)

SpecResolve == InitResolve /\ [][NextResolve]_vars

InitExtract ==
    InitTarget({SourceFile(p) : p \in ProgramsOver(ExtractItems, MaxItems)})

NextExtract == TargetRequest(ExtractInputs)

SpecExtract == InitExtract /\ [][NextExtract]_vars

(***************************************************************************)
(* Scenario of the read operation.  A path is drawn: a missing one, one     *)
(* that cannot be read, a file the parser rejects, or a file of items;     *)
(* then one request is served by execute, or one search by the grep tool.  *)
(***************************************************************************)
MaxReadItems == 2

MaxTargetLine == 6

MaxLinesAround == 2

ParseErrors ==
    {[name |-> "SyntaxError", message |-> <<"Unexpected", "token", "(1:9)">>],
     [name |-> "SyntaxError",
      message |-> <<"Unterminated", "string", "constant", "(1:9)">>],
     [name |-> "SyntaxError", message |-> <<"Unexpected", "EOF">>],
     [name |-> "SyntaxError", message |-> <<"Missing", "semicolon", "(1:9)">>],
     [name |-> "TypeError", message |-> <<"traverse", "is", "not a function">>],
     [name |-> "Error", message |-> <<>>]}

ReadErrors ==
    {[name |-> "Error",
      message |-> <<"EISDIR:", "illegal operation on a directory,", "read">>]}

ReadItems ==
    {Blank, FunctionItem("f"), ClassItem("A", <<Method("f")>>),
     ImportItem(<<DefaultSpecifier("x")>>, "m"), ExportItem("default", "f")}

ReadFiles ==
    {MissingFile}
    \cup {UnreadableFile(e) : e \in ReadErrors}
    \cup {UnparsableFile(<<Broken>>, e) : e \in ParseErrors}
    \cup {SourceFile(p) : p \in ProgramsOver(ReadItems, MaxReadItems)}

Base(mode) == [file_path |-> FilePath, mode |-> mode]

FullInputs == {[file_path |-> FilePath], Base("full")}

OutlineInputs == {Base("outline") @@ v : v \in Optional("verbose", {FALSE})}

LinesInputs ==
    {Base("lines") @@ l @@ a @@ b @@ v :
        l \in Optional("line", 0..MaxTargetLine),
        a \in Optional("linesAbove", 0..MaxLinesAround),
        b \in Optional("linesBelow", 0..MaxLinesAround),
        v \in Optional("verbose", {FALSE})}

ReadTargets ==
    {<<>>, Str("imports"), Str("exports"),
     TargetString("function", Str("f")), TargetString("function", Str("g")),
     TargetString("class", Dotted("A", "f")),
     TargetString("class", Dotted("A", "g")),
     TargetString("method", Str("g")), TargetString("class", Str("B"))}

TargetInputs ==
    {Base("target") @@ t @@ v :
        t \in Optional("target", ReadTargets),
        v \in Optional("verbose", {FALSE})}

\* Inputs the schema rejects: a mode outside the enum, no file_path.
MalformedInputs == {Base("delete"), [mode |-> "full"]}

ReadInputs ==
    FullInputs \cup OutlineInputs \cup LinesInputs \cup TargetInputs
    \cup MalformedInputs

InitRead ==
    /\ pc = "idle"
    /\ functions = <<>>
    /\ unique = <<>>
    /\ again = <<>>
    /\ file \in ReadFiles
    /\ request = NoRequest
    /\ response = NoResponse
    /\ locals = NoLocals
    /\ history = <<>>

\* One call of execute.
Execute(inputs) ==
    \E input \in inputs :
        LET r == execute(input, file)
        IN  /\ pc = "idle"
            /\ request' = input
            /\ response' = r.response
            /\ locals' = r.locals
            /\ pc' = "served"
            /\ UNCHANGED <<functions, unique, again, file, history>>

SearchInputs ==
    {[type |-> t] @@ p @@ d @@ o @@ h :
        t \in {"function", "class", "import"},
        p \in Optional("pattern", {"f", "A", "m"}),
        d \in Optional("path", {FilePath}),
        o \in Optional("output_mode", {"file_paths"}),
        h \in Optional("head_limit", {0, 1})}

\* One call of the search tool's execute.
Search(inputs) ==
    \E input \in inputs :
        /\ pc = "idle"
        /\ request' = input
        /\ response' = grepExecute(input, file)
        /\ pc' = "searched"
        /\ UNCHANGED <<functions, unique, again, file, locals, history>>

NextRead == Execute(ReadInputs) \/ Search(SearchInputs)

SpecRead == InitRead /\ [][NextRead]_vars

(***************************************************************************)
(* Scenario of the imports of an outline.  A file of import declarations,  *)
(* of require calls in their styles and of other lines is drawn; then an   *)
(* outline request, or a request of the imports target, is served.         *)
(***************************************************************************)
MaxImports == 3

ImportItems ==
    {Blank, FunctionItem("f"),
     ImportItem(<<DefaultSpecifier("x")>>, "m"),
     ImportItem(<<>>, "m"),
     ImportItem(<<NamedSpecifier("a", "b"), NamespaceSpecifier("ns")>>, "n")}
    \cup {RequireItem(style, "y", "n") :
            style \in {"bound", "destructured", "bare", "computed", "other"}}

ImportInputs ==
    OutlineInputs
    \cup {Base("target") @@ [target |-> Str("imports")] @@ v :
            v \in Optional("verbose", {FALSE})}

InitOutline ==
    /\ pc = "idle"
    /\ functions = <<>>
    /\ unique = <<>>
    /\ again = <<>>
    /\ file \in {SourceFile(p) : p \in ProgramsOver(ImportItems, MaxImports)}
    /\ request = NoRequest
    /\ response = NoResponse
    /\ locals = NoLocals
    /\ history = <<>>

NextOutline == Execute(ImportInputs)

SpecOutline == InitOutline /\ [][NextOutline]_vars

(***************************************************************************)
(* Scenario of the classification of declarations.  A file of classes      *)
(* (their methods with modifiers and keys of both types), of declarations  *)
(* nested in a method, of a function and a class on one line, of           *)
(* top-level declarations and of exports in the module and the legacy      *)
(* syntax is drawn; then an outline request, or a request of the exports   *)
(* target, is served.                                                      *)
(***************************************************************************)
MaxClassifyItems == 2

ClassifyItems ==
    {Blank, FunctionItem("f"), VariableItem("h", "arrow"),
     ExportItem("list", "f"), DeclaredItem("const", "v", "1", TRUE),
     ClassItem("A", <<QuotedMethod("m"), Method("n")>>),
     ClassItem("A", <<Property("p"), Method("n")>>),
     NestingClassItem("B", "m", FunctionItem("g")),
     NestingClassItem("B", "m", VariableItem("h", "arrow")),
     NestingClassItem("B", "m", VariableItem("h", "1"))}
    \cup {ClassItem("A", <<ModifiedMethod("m", static, async)>>) :
            static \in BOOLEAN, async \in BOOLEAN}
    \cup {InlineItem(order, "f", "C") :
            order \in {"function-first", "class-first"}}
    \cup {LegacyExportItem(form, "f") :
            form \in {"object", "function", "identifier", "member"}}

ClassifyInputs ==
    {Base("outline"), Base("target") @@ [target |-> Str("exports")]}

InitClassify ==
    /\ pc = "idle"
    /\ functions = <<>>
    /\ unique = <<>>
    /\ again = <<>>
    /\ file \in {SourceFile(p) :
                    p \in ProgramsOver(ClassifyItems, MaxClassifyItems)}
    /\ request = NoRequest
    /\ response = NoResponse
    /\ locals = NoLocals
    /\ history = <<>>

NextClassify == Execute(ClassifyInputs)

SpecClassify == InitClassify /\ [][NextClassify]_vars

(***************************************************************************)
(* Scenario of a search by modifiers.  A file of variable declarations of  *)
(* the three kinds, exported or not, bound to a value or to a function, of *)
(* functions and of a class with a static method is drawn; then a search   *)
(* is served whose request may list required modifiers.                    *)
(***************************************************************************)
MaxSearchItems == 2

SearchItems ==
    {FunctionItem("f"), ExportItem("function", "f"),
     ClassItem("A", <<ModifiedMethod("m", TRUE, FALSE), Method("v")>>)}
    \cup {DeclaredItem(kind, n, init, exported) :
            kind \in {"const", "let", "var"}, n \in {"v"},
            init \in {"1", "arrow"}, exported \in BOOLEAN}

ModifierInputs ==
    {[path |-> FilePath, type |-> t, pattern |-> p] @@ m :
        t \in {"function", "variable", "class"},
        p \in {".*", "v", "const"},
        m \in Optional("modifiers",
                       {<<"const">>, <<"CONST">>, <<"let">>, <<"var">>,
                        <<"export">>, <<"static">>, <<"export", "const">>})}

InitSearch ==
    /\ pc = "idle"
    /\ functions = <<>>
    /\ unique = <<>>
    /\ again = <<>>
    /\ file \in {SourceFile(p) :
                    p \in ProgramsOver(SearchItems, MaxSearchItems)}
    /\ request = NoRequest
    /\ response = NoResponse
    /\ locals = NoLocals
    /\ history = <<>>

NextSearch == Search(ModifierInputs)

SpecSearch == InitSearch /\ [][NextSearch]_vars

(***************************************************************************)
(* Scenario of a session.  A file is drawn and stays as it is; the one     *)
(* tool instance of the server then serves a sequence of requests.         *)
(* execute has no await, so a request runs to its end before the next one  *)
(* starts and the interleavings of requests are their sequences.           *)
(***************************************************************************)
MaxRequests == 3

MaxSessionItems == 2

SessionItems ==
    {FunctionItem("f"), ClassItem("A", <<Method("f")>>),
     ImportItem(<<DefaultSpecifier("x")>>, "m")}

SessionFiles ==
    {UnparsableFile(<<Broken>>,
                    [name |-> "SyntaxError",
                     message |-> <<"Unexpected", "token", "(1:9)">>])}
    \cup {SourceFile(p) : p \in ProgramsOver(SessionItems, MaxSessionItems)}

SessionInputs ==
    {Base("full"), Base("outline"), Base("outline") @@ [verbose |-> FALSE],
     Base("lines") @@ [line |-> 1],
     Base("target") @@ [target |-> TargetString("function", Str("f"))],
     Base("target") @@ [target |-> Str("imports")]}

InitSession ==
    /\ pc = "idle"
    /\ functions = <<>>
    /\ unique = <<>>
    /\ again = <<>>
    /\ file \in SessionFiles
    /\ request = NoRequest
    /\ response = NoResponse
    /\ locals = NoLocals
    /\ history = <<>>

\* One more call of execute on the same tool instance.
Serve(inputs) ==
    \E input \in inputs :
        LET r == execute(input, file)
        IN  /\ Len(history) < MaxRequests
            /\ request' = input
            /\ response' = r.response
            /\ locals' = r.locals
            /\ history' = Append(history, [request |-> input,
                                           response |-> r.response])
            /\ pc' = "served"
            /\ UNCHANGED <<functions, unique, again, file>>

NextSession == Serve(SessionInputs)

SpecSession == InitSession /\ [][NextSession]_vars

(***************************************************************************)
(* Claims about the deduplicator.                                          *)
(***************************************************************************)
\* The two subtypes of the specification: declared with the function keyword,
\* or bound to a variable as an arrow function or a function expression.
Subtype(func) ==
    IF func.type = "function_declaration" THEN "declared" ELSE "variable-bound"

SameEntity(a, b) == a.name = b.name /\ Abs(a.line - b.line) <= 2

InSeq(x, s) == \E i \in 1..Len(s) : s[i] = x

\* C1: the list returned by the deduplicator contains no two records with the
\* same name, the same subtype and start lines differing by at most 2.
C1_NoNearDuplicates ==
    pc # "candidates" =>
        \A i, j \in 1..Len(unique) :
            i < j => ~ ( /\ SameEntity(unique[i], unique[j])
                         /\ Subtype(unique[i]) = Subtype(unique[j]) )

\* C2: of an input made of a declared record and a variable-bound record of
\* the same entity, in either order, the output is the declared record alone;
\* of any other input of two records of the same entity the output is the
\* first record alone.
C2_DeclaredWins ==
    (pc # "candidates" /\ Len(functions) = 2
        /\ SameEntity(functions[1], functions[2])) =>
        LET a == functions[1]
            b == functions[2]
        IN  IF Subtype(a) # Subtype(b)
            THEN unique = << IF Subtype(a) = "declared" THEN a ELSE b >>
            ELSE unique = <<a>>

\* C3: deduplication is idempotent: deduplicating the deduplicated list
\* returns it unchanged, same records in the same order.
C3_Idempotent == pc = "rerun" => again = unique

\* A run where the filter removed a record and kept a declared record next to
\* the variable-bound record it was meant to replace.
C3_Witness ==
    /\ pc = "rerun"
    /\ Len(unique) < Len(functions)
    /\ \E i, j \in 1..Len(unique) :
          /\ i < j
          /\ SameEntity(unique[i], unique[j])
          /\ Subtype(unique[i]) # Subtype(unique[j])

(***************************************************************************)
(* Claims about target resolution.  The file's declarations are read from  *)
(* its syntax tree, independently of the visitors.                         *)
(***************************************************************************)
Served == pc = "served"

Params == ReadFileSchemaParse(request)

FileLines == Split(file.content, "\n")

NotFound == ~response.success /\ response.error_type = "TARGET_NOT_FOUND"

\* A function declaration, or a variable bound to an arrow function or a
\* function expression, named n.
IsFunctionNamed(node, n) ==
    \/ node.type = "FunctionDeclaration" /\ node.name = Str(n)
    \/ /\ node.type = "VariableDeclarator"
       /\ node.init \in {"arrow", "funcexpr"}
       /\ node.name = Str(n)

IsMethodNamed(member, n) == member.type = "ClassMethod" /\ member.name = Str(n)

HasMethodNamed(node, n) ==
    /\ node.type = "ClassDeclaration"
    /\ \E i \in 1..Len(node.body) : IsMethodNamed(node.body[i], n)

FirstMethodNamed(node, n) ==
    node.body[MinOf({i \in 1..Len(node.body) : IsMethodNamed(node.body[i], n)})]

\* The response is the method n of class node, and nothing else.
ReturnsMethod(node, n) ==
    /\ response.success
    /\ response.target_type = "method"
    /\ "class_name" \in DOMAIN response
    /\ response.class_name = node.name
    /\ response.line = FirstMethodNamed(node, n).start
    /\ response.end_line = FirstMethodNamed(node, n).end

\* The response is the function node, and nothing else.
ReturnsFunction(node) ==
    /\ response.success
    /\ response.target_type = "function"
    /\ "class_name" \notin DOMAIN response
    /\ response.line = node.start
    /\ response.end_line = node.end

AllNames == MemberNames \cup ClassNames

\* C4, as stated: 'function:name' returns the function named name whenever
\* the file has one, wherever the classes with a method of that name are; a
\* class method is returned only if the file has no such function.
C4_FunctionsBeforeMethods ==
    \A n \in AllNames :
        (Served /\ request.target = TargetString("function", Str(n))) =>
            LET fns == {i \in 1..Len(file.ast) : IsFunctionNamed(file.ast[i], n)}
            IN  fns # {} => ReturnsFunction(file.ast[MinOf(fns)])

\* C4, amended: 'function:name' returns the first match in traversal order
\* among the functions named name and the classes that have a method named
\* name; it is TARGET_NOT_FOUND when there is neither.
C4_FirstInTraversalOrder ==
    \A n \in AllNames :
        (Served /\ request.target = TargetString("function", Str(n))) =>
            LET cands == {i \in 1..Len(file.ast) :
                            \/ IsFunctionNamed(file.ast[i], n)
                            \/ HasMethodNamed(file.ast[i], n)}
                first == file.ast[MinOf(cands)]
            IN  IF cands = {} THEN NotFound
                ELSE IF first.type = "ClassDeclaration"
                THEN ReturnsMethod(first, n)
                ELSE ReturnsFunction(first)

\* 'function:f' on a file where a class with a method f comes before a
\* function f: the method is what is returned.
C4_Witness ==
    /\ Served
    /\ request.target = TargetString("function", Str("f"))
    /\ \E i, j \in 1..Len(file.ast) :
          /\ i < j
          /\ HasMethodNamed(file.ast[i], "f")
          /\ IsFunctionNamed(file.ast[j], "f")
    /\ response.success
    /\ response.target_type = "method"

\* C5: 'method:member' returns the member of the first class, in traversal
\* order, that has a method of that name; 'class:Name.member' returns the
\* member of a class named Name and of no other class, and is
\* TARGET_NOT_FOUND when no class named Name has it, whatever other classes
\* have.
C5_FirstMatchInScope ==
    /\ \A n \in AllNames :
          (Served /\ request.target = TargetString("method", Str(n))) =>
              LET cands == {i \in 1..Len(file.ast) :
                              HasMethodNamed(file.ast[i], n)}
              IN  IF cands = {} THEN NotFound
                  ELSE ReturnsMethod(file.ast[MinOf(cands)], n)
    /\ \A c \in ClassNames, n \in MemberNames :
          (Served /\ request.target = TargetString("class", Dotted(c, n))) =>
              LET cands == {i \in 1..Len(file.ast) :
                              /\ file.ast[i].name = Str(c)
                              /\ HasMethodNamed(file.ast[i], n)}
              IN  IF cands = {} THEN NotFound
                  ELSE ReturnsMethod(file.ast[MinOf(cands)], n)

\* 'class:A.f' on a file where class B, which has a method f, comes before
\* class A, which has one too: the method of A is returned.
C5_Witness ==
    /\ Served
    /\ request.target = TargetString("class", Dotted("A", "f"))
    /\ \E i, j \in 1..Len(file.ast) :
          /\ i < j
          /\ file.ast[i].name = Str("B") /\ HasMethodNamed(file.ast[i], "f")
          /\ file.ast[j].name = Str("A") /\ HasMethodNamed(file.ast[j], "f")
          /\ response.success
          /\ response.line = FirstMethodNamed(file.ast[j], "f").start

(***************************************************************************)
(* Claims about code extraction and its context.                           *)
(***************************************************************************)
\* The number of lines of a text: one more than its line breaks.
LineCount(text) == Len(Split(text, "\n"))

\* The lines first..last of the file (1-based, inclusive) as one text.
FileText(first, last) == Join(SubSeq(FileLines, first, last), "\n")

\* The three parts of a result joined in order, with a line break between
\* the parts that are not empty.
Rejoined ==
    Join(SelectSeq(<<response.context_before, response.code,
                     response.context_after>>,
                   LAMBDA part : part # <<>>),
         "\n")

\* C6: for a successful 'class:C' request the reported end line is at least
\* the start line and the code has exactly end - start + 1 lines.
C6_ClassSliceLength ==
    \A c \in ClassNames :
        (Served /\ request.target = TargetString("class", Str(c))
            /\ response.success) =>
            /\ response.end_line >= response.line
            /\ LineCount(response.code) = response.end_line - response.line + 1

\* A class of three lines extracted whole, from a file where it is not first.
C6_Witness ==
    /\ Served
    /\ request.target = TargetString("class", Str("B"))
    /\ response.success
    /\ response.line > 1
    /\ response.end_line = response.line + 2

\* C7: with context enabled, whatever the context count, the before and
\* after slices are taken at indices within the file: the before slice
\* starts at or after the first line and stops before the target, the after
\* slice starts after the target and stops at or before the last line.
C7_ContextWithinFile ==
    (Served /\ response.success /\ Params.context) =>
        /\ 0 <= locals.contextStart
        /\ locals.contextStart <= response.line - 1
        /\ response.end_line <= locals.contextEnd
        /\ locals.contextEnd <= Len(FileLines)

\* A request whose context count exceeds the number of lines of the file,
\* so that both ends of the window were clamped.
C7_Witness ==
    /\ Served
    /\ response.success
    /\ Params.context
    /\ Supplied(request, "contextLines")
    /\ request.contextLines > Len(FileLines)
    /\ Len(FileLines) >= 2
    /\ response.line - locals.contextLines < 0
    /\ locals.contextStart = 0
    /\ locals.contextEnd = Len(FileLines)

\* C8: with context enabled and k the context count in use, the before
\* slice is exactly lines max(1, start - k) .. start - 1 and the after slice
\* exactly lines end + 1 .. min(totalLines, end + k).
C8_ContextWindow ==
    (Served /\ response.success /\ Params.context) =>
        LET k == locals.contextLines
            start == response.line
            end == response.end_line
        IN  /\ response.context_before = FileText(Max2(1, start - k), start - 1)
            /\ response.context_after =
                  FileText(end + 1, Min2(Len(FileLines), end + k))

\* C9: the parts of a successful result, joined in order with line breaks
\* between the non-empty ones, are a contiguous run of lines of the file
\* that includes the lines of the target.
C9_RoundTrip ==
    (Served /\ response.success) =>
        \E first \in 1..response.line :
            \E last \in response.end_line..Len(FileLines) :
                Rejoined = FileText(first, last)

\* A result with lines of the file on both sides of the target.
C9_Witness ==
    /\ Served
    /\ response.success
    /\ response.context_before # <<>>
    /\ response.context_after # <<>>
    /\ response.end_line > response.line

\* C10: the context count in use is contextLines whenever the request
\* supplies it and the default only when it is omitted; with contextLines 0
\* and context true both context slices are empty.
C10_SuppliedContextLines ==
    (Served /\ response.success) =>
        /\ Supplied(request, "contextLines") =>
              locals.contextLines = request.contextLines
        /\ ~Supplied(request, "contextLines") =>
              locals.contextLines = DefaultContextLines
        /\ (Supplied(request, "contextLines") /\ request.contextLines = 0
                /\ Params.context) =>
              /\ response.context_before = <<>>
              /\ response.context_after = <<>>

(***************************************************************************)
(* Claims about the read operation.                                        *)
(***************************************************************************)
\* execute returned for a request that the schema accepts, on a path that
\* exists and can be read.
ReadServed ==
    /\ Served
    /\ SchemaAccepts(request)
    /\ file.exists
    /\ file.readError = NoError

LinesRequest ==
    ReadServed /\ Params.mode = "lines" /\ Supplied(request, "line")

\* The count of lines above or below that the request asks for.
Asked(field, default) ==
    IF Supplied(request, field) THEN request[field] ELSE default

\* C11: a lines request on an existing file whose target line is greater
\* than the line count of the file returns a LINE_OUT_OF_RANGE error, never
\* a success.
C11_LineOutOfRange ==
    (LinesRequest /\ request.line > Len(FileLines)) =>
        /\ ~response.success
        /\ response.error_type = "LINE_OUT_OF_RANGE"

\* A lines request just past the last line of a file of several lines.
C11_Witness ==
    /\ LinesRequest
    /\ Len(FileLines) >= 2
    /\ request.line = Len(FileLines) + 1
    /\ ~response.success
    /\ response.error_type = "LINE_OUT_OF_RANGE"

\* C12: an in-range lines request with target t, a lines above and b lines
\* below (each 10 only when omitted) reports start_line = max(1, t - a) and
\* end_line = min(total, t + b), returns exactly those lines, and reports
\* lines_above = t - start_line and lines_below = end_line - t.
C12_ClampedSlice ==
    (LinesRequest /\ request.line \in 1..Len(FileLines)) =>
        LET t == request.line
            a == Asked("linesAbove", DefaultLinesAbove)
            b == Asked("linesBelow", DefaultLinesBelow)
            start == Max2(1, t - a)
            end == Min2(Len(FileLines), t + b)
        IN  /\ response.success
            /\ response.total_lines = Len(FileLines)
            /\ response.start_line = start
            /\ response.end_line = end
            /\ response.content = FileText(start, end)
            /\ response.lines_above = t - start
            /\ response.lines_below = end - t

\* The parser rejected the file of an outline request, or of a target
\* request with a target.
ParseFailed ==
    /\ ReadServed
    /\ file.error # NoError
    /\ \/ Params.mode = "outline"
       \/ Params.mode = "target" /\ ~MissingString(Params, "target")

Says(words) == IncludesText(toLowerCase(file.error.message), words)

\* C13: when the source text cannot be parsed, an outline request returns an
\* explicit failure (success false, with an error kind) that carries an
\* empty degraded structure; it never returns a success with empty lists.
C13_ExplicitOutlineFailure ==
    (ParseFailed /\ Params.mode = "outline") =>
        /\ ~response.success
        /\ response.error_type # ""
        /\ response.partial_structure = EmptyStructure

\* An outline request on a file with a syntax error, reported as such.
C13_Witness ==
    /\ ParseFailed
    /\ Params.mode = "outline"
    /\ file.error.name = "SyntaxError"
    /\ ~response.success
    /\ response.error_type = "SyntaxError"
    /\ response.partial_structure = EmptyStructure

ErrorReturned ==
    /\ pc \in {"served", "searched"}
    /\ "success" \in DOMAIN response
    /\ ~response.success

\* C15: every error response of the four read modes and of the search has
\* the same shape: success false, a message, a kind, the file path and the
\* mode, all as top-level fields.
C15_UniformErrorShape ==
    ErrorReturned =>
        {"success", "error", "error_type", "file_path", "mode"}
            \subseteq DOMAIN response

\* C16: every failure response of the read operation, whatever its kind,
\* includes both a kind and a hint.
C16_KindAndHint ==
    (ErrorReturned /\ pc = "served") =>
        /\ response.error_type # ""
        /\ "hint" \in DOMAIN response
        /\ response.hint # Undefined

\* C17: every request to the read operation, whatever its parameters,
\* returns a structured success or error record; a mode that is not
\* recognized yields an error record of kind INVALID_MODE; nothing is thrown.
C17_NeverThrows ==
    Served =>
        /\ "thrown" \notin DOMAIN response
        /\ "success" \in DOMAIN response
        /\ (Supplied(request, "mode") /\ request.mode \notin Modes) =>
              /\ ~response.success
              /\ response.error_type = "INVALID_MODE"

(***************************************************************************)
(* Claims about the hints of the target resolver.                          *)
(***************************************************************************)
IsClassNamed(node, c) == node.type = "ClassDeclaration" /\ node.name = Str(c)

\* No node of the file matches the target of the request.
NoNodeMatches ==
    \/ \E n \in AllNames :
          /\ request.target = TargetString("function", Str(n))
          /\ \A i \in 1..Len(file.ast) :
                ~IsFunctionNamed(file.ast[i], n) /\ ~HasMethodNamed(file.ast[i], n)
    \/ \E n \in AllNames :
          /\ request.target = TargetString("method", Str(n))
          /\ \A i \in 1..Len(file.ast) : ~HasMethodNamed(file.ast[i], n)
    \/ \E n \in AllNames :
          /\ request.target = TargetString("class", Str(n))
          /\ \A i \in 1..Len(file.ast) : ~IsClassNamed(file.ast[i], n)
    \/ \E c \in ClassNames, n \in MemberNames :
          /\ request.target = TargetString("class", Dotted(c, n))
          /\ \A i \in 1..Len(file.ast) :
                ~(IsClassNamed(file.ast[i], c) /\ HasMethodNamed(file.ast[i], n))

\* The target is 'class:c.n', a class c exists and no class c has a method n.
OwnerLacksMember(c, n) ==
    /\ request.target = TargetString("class", Dotted(c, n))
    /\ \E i \in 1..Len(file.ast) : IsClassNamed(file.ast[i], c)
    /\ \A i \in 1..Len(file.ast) :
          ~(IsClassNamed(file.ast[i], c) /\ HasMethodNamed(file.ast[i], n))

\* C19: when no node matches the target the result is TARGET_NOT_FOUND with
\* a hint that mentions outline mode; for 'class:Owner.member' where Owner
\* exists without the member, the hint says that the member was not found
\* in class Owner.
C19_NotFoundHint ==
    Served =>
        /\ NoNodeMatches => NotFound
        /\ ~response.success =>
              /\ response.error_type = "TARGET_NOT_FOUND"
              /\ Includes(response.hint, "mode='outline'")
        /\ \A c \in ClassNames, n \in MemberNames :
              OwnerLacksMember(c, n) =>
                  /\ NotFound
                  /\ IncludesText(response.hint,
                                  <<"Method '", n, "' not found in class '",
                                    c, "'.">>)

\* 'class:A.g' on a file whose class A has a method f and no method g.
C19_Witness ==
    /\ Served
    /\ OwnerLacksMember("A", "g")
    /\ \E i \in 1..Len(file.ast) :
          IsClassNamed(file.ast[i], "A") /\ HasMethodNamed(file.ast[i], "f")
    /\ NotFound
    /\ Includes(response.hint, "mode='outline'")

(***************************************************************************)
(* Claims about the imports of an outline, stated on the text of the file. *)
(***************************************************************************)
\* The text of the line is an ES import declaration.
IsImportLine(line) == Len(line) > 0 /\ line[1] = "import"

\* The text of the line has a call of require on a string literal.
IsRequireLine(line) == IncludesText(line, <<"require", "(", "'">>)

\* The string between the first quotes of the line.
SourceOnLine(line) == line[MinOf({i \in 1..Len(line) : line[i] = "'"}) + 1]

ImportingLines ==
    {i \in 1..Len(FileLines) :
        IsImportLine(FileLines[i]) \/ IsRequireLine(FileLines[i])}

\* The imports list of the response: of the outline, or of the imports
\* target.
ImportsReturned ==
    IF response.mode = "outline" THEN response.structure.imports
    ELSE response.imports

\* C20: the imports list has exactly one record for every import
\* declaration and one for every require call on a string literal, each
\* with the source string of its line, in the order of the file, whichever
\* of the two styles was used.
C20_ImportsBothStyles ==
    Served =>
        /\ response.success
        /\ Len(ImportsReturned) = Cardinality(ImportingLines)
        /\ \A k \in 1..Len(ImportsReturned) :
              /\ ImportsReturned[k].line \in ImportingLines
              /\ ImportsReturned[k].source =
                    SourceOnLine(FileLines[ImportsReturned[k].line])
              /\ k > 1 => ImportsReturned[k - 1].line < ImportsReturned[k].line

\* An outline of a file with a require call first and an import declaration
\* without specifiers after it, with sources n and m in that order.
C20_Witness ==
    /\ Served
    /\ response.mode = "outline"
    /\ Len(FileLines) >= 2
    /\ IsRequireLine(FileLines[1])
    /\ FileLines[2] = <<"import", "'", "m", "'">>
    /\ Len(ImportsReturned) >= 2
    /\ ImportsReturned[1].source = "n"
    /\ ImportsReturned[2].source = "m"

ExportsReturned ==
    IF response.mode = "outline" THEN response.structure.exports
    ELSE response.exports

\* A line that assigns to module.exports or to a property of exports.
IsLegacyExportLine(line) ==
    /\ Len(line) >= 5
    /\ \/ SubSeq(line, 1, 4) = <<"module", ".", "exports", "=">>
       \/ SubSeq(line, 1, 2) = <<"exports", ".">> /\ line[4] = "="

\* The names that a legacy export line exports; a function on the right-hand
\* side is one default-like export, whatever its name.
LegacyExportNames(line) ==
    CASE line[1] = "exports" -> {Str(line[3])}
      [] line[5] = "{" ->
            {Str(line[i]) : i \in {j \in 6..(Len(line) - 1) : line[j] # ","}}
      [] OTHER -> {Str(line[5])}

\* C21: the exports list records the legacy assignment forms: one export
\* per property key of module.exports = { ... }, a single export for a
\* function on the right-hand side, the identifier of module.exports =
\* ident, and x of exports.x = ...
C21_LegacyExportsRecorded ==
    (Served /\ response.success) =>
        \A i \in 1..Len(FileLines) :
            IsLegacyExportLine(FileLines[i]) =>
                LET on == {k \in 1..Len(ExportsReturned) :
                              ExportsReturned[k].line = i}
                    names == LegacyExportNames(FileLines[i])
                IN  IF FileLines[i][5] = "function"
                    THEN Cardinality(on) = 1
                    ELSE /\ Cardinality(on) = Cardinality(names)
                         /\ {ExportsReturned[k].name : k \in on} = names

\* A successful outline of a file that can be read.
OutlineServed ==
    /\ Served
    /\ Params.mode = "outline"
    /\ response.success

\* The class declarations of the file, in the order of the file.
ClassesDeclared ==
    SelectSeq(file.ast, LAMBDA node : node.type = "ClassDeclaration")

\* The members of a class that have a function-like body: its methods,
\* whatever the type of their key.
FunctionLikeMembers(class) ==
    SelectSeq(class.body, LAMBDA member : member.type = "ClassMethod")

\* The methods of a class whose key is a plain identifier.
IdentifierMethods(class) ==
    SelectSeq(class.body,
              LAMBDA member : /\ member.type = "ClassMethod"
                              /\ member.key = "Identifier")

\* The outline has one class record for each class declaration and, under
\* it, exactly one Method record for each of the given members of the
\* class, in their order, with the static and async modifiers of the
\* member; none of these members is in the top-level functions list.
MethodRecordsAre(Members(_)) ==
    /\ Len(response.structure.classes) = Len(ClassesDeclared)
    /\ \A k \in 1..Len(ClassesDeclared) :
          LET members == Members(ClassesDeclared[k])
              methods == response.structure.classes[k].methods
          IN  /\ response.structure.classes[k].name = ClassesDeclared[k].name
              /\ Len(methods) = Len(members)
              /\ \A i \in 1..Len(members) :
                    /\ methods[i].name = members[i].name
                    /\ methods[i].line = members[i].start
                    /\ methods[i].static = members[i].static
                    /\ methods[i].async = members[i].async
              /\ \A i \in 1..Len(members) :
                    \A j \in 1..Len(response.structure.functions) :
                        \/ response.structure.functions[j].name #
                              members[i].name
                        \/ response.structure.functions[j].line #
                              members[i].start

\* C22 as stated: every class of the outline has exactly one Method record
\* for each of its members with a function-like body, with the static and
\* async modifiers of the member, and no such member is in the top-level
\* functions list.
C22_MethodPerMember == OutlineServed => MethodRecordsAre(FunctionLikeMembers)

\* C22, amended: every class of the outline has exactly one Method record
\* for each of its methods whose key is a plain identifier, with the static
\* and async modifiers of the method, and none for any other member; no
\* such method is in the top-level functions list.
C22_MethodPerIdentifierMethod ==
    OutlineServed => MethodRecordsAre(IdentifierMethods)

\* An outline of a file whose first class has a static async method m as
\* its only member, recorded with both flags.
C22_Witness ==
    /\ OutlineServed
    /\ Len(ClassesDeclared) >= 1
    /\ Len(ClassesDeclared[1].body) = 1
    /\ ClassesDeclared[1].body[1].static
    /\ ClassesDeclared[1].body[1].async
    /\ Len(response.structure.classes[1].methods) = 1
    /\ response.structure.classes[1].methods[1].static
    /\ response.structure.classes[1].methods[1].async

\* A function declaration with a name, or a variable with an identifier as
\* its name that is bound to an arrow function or a function expression.
IsFunctionShaped(node) ==
    /\ node.type \in {"FunctionDeclaration", "VariableDeclarator"}
    /\ node.name # <<>>
    /\ node.type = "VariableDeclarator" => node.init \in {"arrow", "funcexpr"}

\* The node at index i starts on a line of the span of a named class that
\* the traversal met before it.
InEarlierClass(i) ==
    \E j \in 1..(i - 1) :
        /\ file.ast[j].type = "ClassDeclaration"
        /\ file.ast[j].name # <<>>
        /\ file.ast[i].start \in file.ast[j].start .. file.ast[j].end

\* The indices of the function-shaped declarations, in traversal order.
FunctionShapedAt ==
    SelectSeq([i \in 1..Len(file.ast) |-> i],
              LAMBDA i : IsFunctionShaped(file.ast[i]))

\* C23: a function-shaped declaration is omitted from the candidate
\* function list of the outline if and only if its start line lies in the
\* span of a class recorded earlier in the traversal; every other one is
\* recorded as a Function, in traversal order.
C23_OmittedIffInEarlierClass ==
    OutlineServed =>
        LET kept == SelectSeq(FunctionShapedAt,
                              LAMBDA i : ~InEarlierClass(i))
        IN  /\ Len(locals.functions) = Len(kept)
            /\ \A k \in 1..Len(kept) :
                  /\ locals.functions[k].name = file.ast[kept[k]].name
                  /\ locals.functions[k].line = file.ast[kept[k]].start

\* An outline of a file with a function nested in a method of a class,
\* which is omitted, and a function and a class on one line, the function
\* first, which is recorded.
C23_Witness ==
    /\ OutlineServed
    /\ \E i \in 1..Len(file.ast) :
          /\ file.ast[i].type = "FunctionDeclaration"
          /\ InEarlierClass(i)
          /\ \A k \in 1..Len(locals.functions) :
                locals.functions[k].line # file.ast[i].start
    /\ \E i \in 1..Len(file.ast) :
          /\ file.ast[i].type = "FunctionDeclaration"
          /\ ~InEarlierClass(i)
          /\ i < Len(file.ast)
          /\ file.ast[i + 1].type = "ClassDeclaration"
          /\ file.ast[i + 1].start = file.ast[i].start
          /\ \E k \in 1..Len(locals.functions) :
                locals.functions[k].line = file.ast[i].start

\* The Method records of the classes of the outline whose span holds the
\* given line.
MethodsOfClassesAround(line) ==
    UNION {{response.structure.classes[k].methods[m] :
              m \in 1..Len(response.structure.classes[k].methods)} :
           k \in {c \in 1..Len(ClassesDeclared) :
                    line \in ClassesDeclared[c].start ..
                             ClassesDeclared[c].end}}

\* C24: no declaration is lost from the outline: every function-shaped
\* declaration that is kept out of the functions list because its line is
\* in the span of a class is one of the Method records of that class.
C24_SuppressedBecomeMethods ==
    OutlineServed =>
        \A i \in 1..Len(file.ast) :
            (IsFunctionShaped(file.ast[i]) /\ InEarlierClass(i)) =>
                \E method \in MethodsOfClassesAround(file.ast[i].start) :
                    /\ method.name = file.ast[i].name
                    /\ method.line = file.ast[i].start

\* The names that the declaration around the require call of a line binds,
\* in their order; none when the call is not the initializer of a
\* declaration.
RequireBoundNames(line) ==
    IF line[1] # "const" THEN <<>>
    ELSE IF line[2] = "{"
    THEN LET close == MinOf({i \in 1..Len(line) : line[i] = "}"})
         IN  SelectSeq(SubSeq(line, 3, close - 1), LAMBDA token : token # ",")
    ELSE <<line[2]>>

\* C25: every Import record of a require call lists the name or names bound
\* by the variable declarator around the call, each name of a destructured
\* binding included; it lists "unknown" only when the call has no
\* declarator around it.
C25_RequireBoundNames ==
    (Served /\ response.success) =>
        \A k \in 1..Len(ImportsReturned) :
            LET line == FileLines[ImportsReturned[k].line]
                names == RequireBoundNames(line)
            IN  IsRequireLine(line) =>
                    ImportsReturned[k].imported =
                        IF names = <<>> THEN <<Str("unknown")>>
                        ELSE [i \in 1..Len(names) |-> Str(names[i])]

(***************************************************************************)
(* Claims about the order of the steps of a read.                          *)
(***************************************************************************)
\* The response is the error of the parser for the text of the file.
ParseFailureReturned ==
    /\ file.error # NoError
    /\ ~response.success
    /\ response.error_type = file.error.name

\* C26: the full and lines paths never run the parser: on a file that can
\* be read, whether or not its text can be parsed, a full request succeeds
\* and a lines request with a line in range succeeds; only an outline or a
\* target request returns the error of the parser.
C26_TextPathsBypassParser ==
    ReadServed =>
        /\ Params.mode = "full" => response.success
        /\ (LinesRequest /\ request.line \in 1..Len(FileLines)) =>
              response.success
        /\ ParseFailureReturned => Params.mode \in {"outline", "target"}

\* A lines request served with success, with the text of its lines, on a
\* file that the parser rejects.
C26_Witness ==
    /\ LinesRequest
    /\ file.error # NoError
    /\ response.success
    /\ response.content = FileText(response.start_line, response.end_line)

\* execute returned a record for a request that the schema accepts.
AcceptedServed == Served /\ SchemaAccepts(request)

Kind(type) == ~response.success /\ response.error_type = type

\* The request has the parameter that its mode requires.
RequiredParameterPresent ==
    /\ Params.mode = "lines" => Supplied(request, "line")
    /\ Params.mode = "target" => Supplied(request, "target")

\* The errors that are returned only after the path and the required
\* parameter were checked.
LateErrorReturned ==
    \/ Kind("LINE_OUT_OF_RANGE")
    \/ Kind("TARGET_NOT_FOUND")
    \/ file.exists /\ file.readError = NoError /\ ParseFailureReturned

\* What is returned when the path exists, given whether the file is one
\* for which the parameter checks are reached.
ParameterChecks(reached) ==
    /\ (reached /\ Params.mode = "lines" /\ ~Supplied(request, "line")) =>
          Kind("MISSING_LINE")
    /\ (reached /\ Params.mode = "target" /\ ~Supplied(request, "target")) =>
          Kind("MISSING_TARGET")
    /\ LateErrorReturned => (file.exists /\ RequiredParameterPresent)

\* C27 as stated: a path that does not exist yields FILE_NOT_FOUND for every
\* mode and parameter combination; otherwise a lines request without a line
\* yields MISSING_LINE and a target request without a target yields
\* MISSING_TARGET; LINE_OUT_OF_RANGE, parse failures and TARGET_NOT_FOUND are
\* returned only when the file exists and the required parameter is present.
C27_CheckOrder ==
    AcceptedServed =>
        /\ ~file.exists => Kind("FILE_NOT_FOUND")
        /\ ParameterChecks(file.exists)

\* C27, amended: FILE_NOT_FOUND for a path that does not exist; otherwise
\* the error of the read, with the class of the error as its kind, for a
\* path that cannot be read, in every mode; otherwise MISSING_LINE and
\* MISSING_TARGET for a missing required parameter; the later errors only
\* when the file exists and the required parameter is present.
C27_CheckOrderWithRead ==
    AcceptedServed =>
        /\ ~file.exists => Kind("FILE_NOT_FOUND")
        /\ (file.exists /\ file.readError # NoError) =>
              Kind(file.readError.name)
        /\ ParameterChecks(file.exists /\ file.readError = NoError)

\* A lines request without a line on a path that does not exist, answered
\* with FILE_NOT_FOUND.
C27_Witness ==
    /\ AcceptedServed
    /\ ~file.exists
    /\ Params.mode = "lines"
    /\ ~Supplied(request, "line")
    /\ Kind("FILE_NOT_FOUND")

(***************************************************************************)
(* Claims about the search by modifiers.                                   *)
(***************************************************************************)
DeclarationKinds == {"const", "let", "var"}

\* A search of type variable was served whose one required modifier is a
\* kind of declaration, and whose pattern is matched against the names.
KindSearchServed ==
    /\ pc = "searched"
    /\ response.success
    /\ request.type = "variable"
    /\ Supplied(request, "modifiers")
    /\ Len(request.modifiers) = 1
    /\ LowerCaseOf(request.modifiers[1]) \in DeclarationKinds
    /\ request.pattern \notin DeclarationKinds

\* The lines of the variables of the file that are declared with the kind,
\* are not bound to a function and have a name that the pattern matches.
VariablesOfKind(kind, pattern) ==
    {file.ast[i].start :
        i \in {j \in 1..Len(file.ast) :
                 /\ file.ast[j].type = "VariableDeclarator"
                 /\ file.ast[j].kind = kind
                 /\ file.ast[j].init \notin {"arrow", "funcexpr"}
                 /\ file.ast[j].name # <<>>
                 /\ \/ pattern = ".*"
                    \/ file.ast[j].name = Str(pattern)}}

\* C28: a search of type variable with the modifier const (let, var)
\* returns every variable declared with that kind whose initializer is not
\* a function and whose name matches the pattern, and no variable declared
\* with another kind.
C28_KindFilter ==
    KindSearchServed =>
        {response.matches[k].line : k \in 1..Len(response.matches)} =
            VariablesOfKind(LowerCaseOf(request.modifiers[1]),
                            request.pattern)

\* C29: every response of the read operation, success or error, has in its
\* mode field the mode of the request that produced it.
C29_ModeOfRequest == AcceptedServed => response.mode = Params.mode

(***************************************************************************)
(* Claims about what the deduplicator keeps.                               *)
(***************************************************************************)
\* The elements of a, in their order, are among those of b in its order.
RECURSIVE IsSubsequence(_, _)
IsSubsequence(a, b) ==
    IF a = <<>> THEN TRUE
    ELSE IF b = <<>> THEN FALSE
    ELSE IF Head(a) = Head(b) THEN IsSubsequence(Tail(a), Tail(b))
    ELSE IsSubsequence(a, Tail(b))

NamesOf(list) == {list[i].name : i \in 1..Len(list)}

\* C30: the deduplicator only removes records: its output is a subsequence
\* of its input, and every function name of the input is the name of at
\* least one record of the output.
C30_OnlyRemoves ==
    pc \in {"deduped", "rerun"} =>
        /\ IsSubsequence(unique, functions)
        /\ NamesOf(unique) = NamesOf(functions)

\* A list with records of two names from which a record of each name is
\* removed, and both names are still in the output.
C30_Witness ==
    /\ pc = "deduped"
    /\ NamesOf(functions) = FuncNames
    /\ NamesOf(unique) = FuncNames
    /\ Len(unique) < Len(functions)
    /\ \E i \in 1..Len(functions) :
          /\ functions[i].name = "g"
          /\ \A k \in 1..Len(unique) : unique[k] # functions[i]

====
